---- MODULE Spec2Model ----
(***************************************************************************)
(* GigglesD: the link-edit moderation rule of the bot.                     *)
(*                                                                         *)
(*   - helpers.js      containsUrls, hasModeratorPermissions,              *)
(*                     detectUrlChanges                                    *)
(*   - supabase.js     logLinkViolation                                    *)
(*   - messageUpdate.js  the messageUpdate handler and its continuations   *)
(*                                                                         *)
(* Message contents are sequences of one-character strings, so that the    *)
(* URL pattern is matched character by character as the regex does.        *)
(***************************************************************************)
EXTENDS Integers, Sequences, FiniteSets, TLC

VARIABLES
    dOld,       \* detectUrlChanges: the oldContent argument of the call
    dNew,       \* detectUrlChanges: the newContent argument of the call
    dRes,       \* detectUrlChanges: the value returned, Unset before the call
    lastIndex,  \* lastIndex of the urlRegex object of the latest containsUrls call
    calls,      \* the calls of detectUrlChanges made one after another, with results
    member,     \* hasModeratorPermissions: the member argument of the call
    mRes,       \* hasModeratorPermissions: whether it was called, and the value
    supabaseClient, \* supabase.js: the module variable, "null" until initialised
    lv,         \* logLinkViolation: the call, the row given to insert(), the promise
    gateway,    \* the notifications the gateway still delivers, and of which kind
    ev,         \* ev[e]: the (oldMessage, newMessage) pair of edit notification e
    pc,         \* pc[e]: where the evaluation of e stands
    outcome,    \* outcome[e]: the branch the handler took for e
    trace,      \* trace[e]: the log lines and outbound calls of e, in order
    db,         \* db[e]: the logLinkViolation promise of e and the row submitted
    del,        \* del[e]: the newMessage.delete() promise of e
    notices,    \* the notices the bot has sent; removed ones are kept, marked
    timer,      \* timer[e]: the setTimeout registered by e
    escaped,    \* escaped[e]: an exception or rejection left the handler of e
    about,      \* the guild's announcement channel: whether it exists, its messages
    sections,   \* the section channels: which exist, which hold their section embed
    announce,   \* sendStaticAnnouncement: the runs made and where the current one stands
    guild,      \* the Discord guild: the bot's membership, the channel cache
    guilds,     \* the row of the guild in the guilds table
    create,     \* guildCreate: where the evaluation stands, the setup message
    leave,      \* guildDelete: where the evaluation stands, the row before and after
    join        \* guildMemberAdd: where the evaluation of the latest join stands

detectVars == <<dOld, dNew, dRes>>
callVars == <<lastIndex, calls>>
permVars == <<member, mRes>>
logVars == <<supabaseClient, lv>>
announceVars == <<about, sections, announce>>
onboardVars == <<guild, guilds, create, leave, join>>
serverVars == <<announceVars, onboardVars>>
helperVars == <<detectVars, callVars, permVars, logVars, serverVars>>
handlerVars == <<gateway, ev, pc, outcome, trace, db, del, notices, timer, escaped>>
vars == <<dOld, dNew, dRes, lastIndex, calls, member, mRes, supabaseClient, lv,
          gateway, ev, pc, outcome, trace, db, del, notices, timer, escaped,
          about, sections, announce, guild, guilds, create, leave, join>>

(***************************************************************************)
(* Bounds of the model.                                                    *)
(***************************************************************************)
\* edit notifications delivered to the handler in one run
MaxEvents == 1
\* tokens concatenated into one message content given to detectUrlChanges
MaxTokens == 2
\* ready events (starts of the bot) in one run
MaxRuns == 2
\* messages other people post in the announcement channel
MaxPosts == 21
\* channels in the cache of the guild
MaxChannels == 2

(***************************************************************************)
(* Strings.                                                                *)
(***************************************************************************)
\* null / undefined content (a partial message): no character sequence
Null == <<"<null>">>

WhiteSpace == {" ", "\t", "\n"}

LowerLetters == {"a", "c", "h", "i", "o", "p", "s", "t", "w", "x"}

\* the i flag of the pattern: upper-case letters of the alphabet in use
ToLower(c) ==
    CASE c = "H" -> "h"
      [] c = "T" -> "t"
      [] c = "P" -> "p"
      [] c = "S" -> "s"
      [] c = "W" -> "w"
      [] c = "X" -> "x"
      [] OTHER -> c

\* [^\s]
NonSpace(c) == c \notin WhiteSpace

\* [a-z] under the i flag
IsLetter(c) == ToLower(c) \in LowerLetters

\* JavaScript's !content for a string-or-null value
Falsy(content) == content = Null \/ content = <<>>

\* the literal lit occurs in s at position i, case-insensitively
LiteralAt(s, i, lit) ==
    /\ i + Len(lit) - 1 <= Len(s)
    /\ \A k \in 1..Len(lit) : ToLower(s[i + k - 1]) = lit[k]

\* https?:\/\/[^\s]+ matches at position i
SchemeAt(s, i) ==
    \E lit \in { <<"h","t","t","p",":","/","/">>, <<"h","t","t","p","s",":","/","/">> } :
        /\ LiteralAt(s, i, lit)
        /\ i + Len(lit) <= Len(s)
        /\ NonSpace(s[i + Len(lit)])

\* www\.[^\s]+ matches at position i
WwwAt(s, i) ==
    /\ LiteralAt(s, i, <<"w","w","w",".">>)
    /\ i + 4 <= Len(s)
    /\ NonSpace(s[i + 4])

\* [^\s]+\.[a-z]{2,}\/[^\s]* matches at position i: non-space characters up
\* to a dot at j, then k >= 2 letters, then a slash
DomainAt(s, i) ==
    \E j \in (i + 1)..Len(s) :
        /\ s[j] = "."
        /\ \A q \in i..(j - 1) : NonSpace(s[q])
        /\ \E k \in 2..Len(s) :
              /\ j + k + 1 <= Len(s)
              /\ \A q \in (j + 1)..(j + k) : IsLetter(s[q])
              /\ s[j + k + 1] = "/"

\* helpers.js containsUrls: urlRegex.test(content) on a fresh regex
containsUrls(content) ==
    IF Falsy(content) THEN FALSE
    ELSE \E i \in 1..Len(content) :
            SchemeAt(content, i) \/ WwwAt(content, i) \/ DomainAt(content, i)

NoChange == [hasChangedUrls |-> FALSE, type |-> "none"]

\* detectUrlChanges with the negation of the "added" test on the wrong operand
detectUrlChanges_negationSwapped(oldContent, newContent) ==
    IF Falsy(oldContent) \/ Falsy(newContent) THEN NoChange
    ELSE IF containsUrls(oldContent) /\ ~containsUrls(newContent)
         THEN [hasChangedUrls |-> TRUE, type |-> "added"]
    ELSE IF containsUrls(oldContent) /\ containsUrls(newContent)
            /\ oldContent # newContent
         THEN [hasChangedUrls |-> TRUE, type |-> "modified"]
    ELSE NoChange

\* detectUrlChanges comparing with === where the code compares with !==
detectUrlChanges_sameContent(oldContent, newContent) ==
    IF Falsy(oldContent) \/ Falsy(newContent) THEN NoChange
    ELSE IF ~containsUrls(oldContent) /\ containsUrls(newContent)
         THEN [hasChangedUrls |-> TRUE, type |-> "added"]
    ELSE IF containsUrls(oldContent) /\ containsUrls(newContent)
            /\ oldContent = newContent
         THEN [hasChangedUrls |-> TRUE, type |-> "modified"]
    ELSE NoChange

\* detectUrlChanges reporting "modified" without testing the new content for a link
detectUrlChanges_removalCounts(oldContent, newContent) ==
    IF Falsy(oldContent) \/ Falsy(newContent) THEN NoChange
    ELSE IF ~containsUrls(oldContent) /\ containsUrls(newContent)
         THEN [hasChangedUrls |-> TRUE, type |-> "added"]
    ELSE IF containsUrls(oldContent) /\ oldContent # newContent
         THEN [hasChangedUrls |-> TRUE, type |-> "modified"]
    ELSE NoChange

\* detectUrlChanges without its first line, the test of absent or empty contents
detectUrlChanges_unguarded(oldContent, newContent) ==
    IF ~containsUrls(oldContent) /\ containsUrls(newContent)
         THEN [hasChangedUrls |-> TRUE, type |-> "added"]
    ELSE IF containsUrls(oldContent) /\ containsUrls(newContent)
            /\ oldContent # newContent
         THEN [hasChangedUrls |-> TRUE, type |-> "modified"]
    ELSE NoChange

\* helpers.js detectUrlChanges
detectUrlChanges(oldContent, newContent) ==
    IF Falsy(oldContent) \/ Falsy(newContent) THEN NoChange
    ELSE IF ~containsUrls(oldContent) /\ containsUrls(newContent)
         THEN [hasChangedUrls |-> TRUE, type |-> "added"]
    ELSE IF containsUrls(oldContent) /\ containsUrls(newContent)
            /\ oldContent # newContent
         THEN [hasChangedUrls |-> TRUE, type |-> "modified"]
    ELSE NoChange

(***************************************************************************)
(* The same two functions with the state of the regex object written out:  *)
(* the pattern has the g flag, so test() starts at the object's lastIndex  *)
(* and leaves the end of the match, or 0, in it.                           *)
(***************************************************************************)
\* calls of detectUrlChanges made one after another
MaxCalls == 3

MatchAt(s, i) == SchemeAt(s, i) \/ WwwAt(s, i) \/ DomainAt(s, i)

\* the last position of the run of non-space characters through i: each
\* alternative of the pattern ends in a greedy [^\s]+ or [^\s]*
RECURSIVE RunEnd(_, _)
RunEnd(s, i) == IF i < Len(s) /\ NonSpace(s[i + 1]) THEN RunEnd(s, i + 1) ELSE i

\* RegExp.prototype.test(s) on a global regex whose lastIndex is from
RegExpTest(s, from) ==
    IF from > Len(s) THEN [found |-> FALSE, lastIndex |-> 0]
    ELSE LET starts == { i \in (from + 1)..Len(s) : MatchAt(s, i) } IN
         IF starts = {} THEN [found |-> FALSE, lastIndex |-> 0]
         ELSE [found |-> TRUE,
               lastIndex |-> RunEnd(s, CHOOSE i \in starts : \A k \in starts : i <= k)]

\* one regex object at module level, its lastIndex kept from call to call
urlRegex_moduleLevel(previous) == previous

\* line 361: the literal is evaluated at each call, a new object with
\* lastIndex 0 whatever the object of the previous call was left with
urlRegex(previous) == 0

\* containsUrls as a call: the value returned and the lastIndex left behind
containsUrlsCall(content, previous) ==
    IF Falsy(content) THEN [found |-> FALSE, lastIndex |-> previous]
    ELSE RegExpTest(content, urlRegex(previous))

\* detectUrlChanges as a call: both containsUrls calls are made, in order
detectUrlChangesCall(oldContent, newContent, previous) ==
    IF Falsy(oldContent) \/ Falsy(newContent)
    THEN [result |-> NoChange, lastIndex |-> previous]
    ELSE LET oldHasUrls == containsUrlsCall(oldContent, previous)
             newHasUrls == containsUrlsCall(newContent, oldHasUrls.lastIndex)
         IN [ result |->
                IF ~oldHasUrls.found /\ newHasUrls.found
                THEN [hasChangedUrls |-> TRUE, type |-> "added"]
                ELSE IF oldHasUrls.found /\ newHasUrls.found /\ oldContent # newContent
                THEN [hasChangedUrls |-> TRUE, type |-> "modified"]
                ELSE NoChange,
              lastIndex |-> newHasUrls.lastIndex ]

(***************************************************************************)
(* Contents given to detectUrlChanges: up to MaxTokens tokens, chosen so   *)
(* that concatenation makes and breaks links ("www." + "Hi", "x.co" + "/",  *)
(* "HTTP://" + " ").                                                       *)
(***************************************************************************)
Tokens ==
    { <<"H","i">>,
      <<" ">>,
      <<"h","t","t","p","s",":","/","/","x">>,
      <<"H","T","T","P",":","/","/">>,
      <<"w","w","w",".">>,
      <<"x",".","c","o">>,
      <<"/">> }

RECURSIVE Concat(_)
Concat(ts) == IF ts = <<>> THEN <<>> ELSE Head(ts) \o Concat(Tail(ts))

Texts == { Concat(ts) : ts \in UNION { [1..n -> Tokens] : n \in 0..MaxTokens } }

Contents == Texts \cup {Null}

(***************************************************************************)
(* Permissions.                                                            *)
(***************************************************************************)
\* member.permissions absent
NoPermissions == {"<no permissions>"}

\* the list of moderator permissions without its last entry
modPermissions_withoutModerateMembers ==
    {"ManageMessages", "ManageChannels", "ManageGuild", "BanMembers", "KickMembers"}

modPermissions ==
    {"ManageMessages", "ManageChannels", "ManageGuild",
     "BanMembers", "KickMembers", "ModerateMembers"}

\* discord.js PermissionsBitField.has: Administrator grants every permission
PermissionsHas(permissions, permission) ==
    permission \in permissions \/ "Administrator" \in permissions

\* hasModeratorPermissions testing Administrator only
hasModeratorPermissions_adminOnly(memberPresent, permissions) ==
    IF ~memberPresent \/ permissions = NoPermissions THEN FALSE
    ELSE PermissionsHas(permissions, "Administrator")

\* helpers.js hasModeratorPermissions(member)
hasModeratorPermissions(memberPresent, permissions) ==
    IF ~memberPresent \/ permissions = NoPermissions THEN FALSE
    ELSE IF PermissionsHas(permissions, "Administrator") THEN TRUE
    ELSE \E permission \in modPermissions : PermissionsHas(permissions, permission)

\* the permission flags a member's permissions are drawn from
PermissionFlags ==
    {"Administrator", "ManageMessages", "ManageChannels", "ManageGuild",
     "BanMembers", "KickMembers", "ModerateMembers", "SendMessages", "ManageRoles"}

\* the arguments of hasModeratorPermissions: no member, a member without
\* permission data, a member with any set of flags
Members ==
    { [memberPresent |-> FALSE, permissions |-> NoPermissions],
      [memberPresent |-> TRUE, permissions |-> NoPermissions] }
    \cup { [memberPresent |-> TRUE, permissions |-> flags] : flags \in SUBSET PermissionFlags }

(***************************************************************************)
(* Edit notifications.                                                     *)
(***************************************************************************)
\* a burst of notifications in flight together holds one more
Evts == 1..(MaxEvents + 1)

MessageId(e) == <<"message", e>>
ChannelId(e) == <<"channel", e>>
UserId(e) == <<"user", e>>
GuildId == <<"guild", 1>>

TextHi == <<"H","i">>
TextLink == <<"H","i"," ","h","t","t","p","s",":","/","/","x">>
TextLinkMore == <<"h","t","t","p","s",":","/","/","x"," ","H","i">>
TextPlain == <<"H","i"," ","H","i">>

\* (oldMessage.content, newMessage.content) of the notifications
ContentPairs ==
    { <<TextHi, TextLink>>,         \* a link is added
      <<TextLink, TextLinkMore>>,   \* a linked message is changed
      <<TextLink, TextHi>>,         \* the link is removed
      <<TextHi, TextPlain>>,        \* no link before or after
      <<TextLink, TextLink>>,       \* the text is unchanged (an embed update)
      <<Null, TextLink>>,           \* the old content is not cached
      <<TextLink, Null>>,           \* the new content is missing
      <<<<>>, TextLink>>,           \* the old message had no text
      <<TextLink, <<>>>> }          \* the text is removed, an attachment stays

\* Date.now() - oldMessage.createdTimestamp of the notifications, in ms
EditDelays == {120000, 600000, 600001, 1200000}

PermissionChoices == { {"SendMessages"}, {"ManageMessages"}, {"Administrator"} }

BaseEvent(e, permissions, pair, delay) ==
    [ id |-> MessageId(e),
      authorPresent |-> TRUE, authorId |-> UserId(e),
      bot |-> FALSE, system |-> FALSE,
      guildPresent |-> TRUE,
      memberPresent |-> TRUE, permissions |-> permissions,
      channelPresent |-> TRUE, channelId |-> ChannelId(e),
      oldContent |-> pair[1], newContent |-> pair[2],
      createdTimestamp |-> 0, now |-> delay,
      edit |-> e, edited |-> FALSE, editedTimestamp |-> 0 ]

WellFormedEvents(e) ==
    { BaseEvent(e, p, c, d) : p \in PermissionChoices, c \in ContentPairs, d \in EditDelays }

\* a link added after the grace period, by a member with or without a
\* moderator permission: the notifications the defects below are applied to
LateLinkEvents(e) ==
    { BaseEvent(e, p, <<TextHi, TextLink>>, 600001) :
        p \in { {"SendMessages"}, {"ManageMessages"} } }

DefectiveEvents(e) ==
    UNION { { [m EXCEPT !.authorPresent = FALSE],
              [m EXCEPT !.bot = TRUE],
              [m EXCEPT !.system = TRUE],
              [m EXCEPT !.guildPresent = FALSE],
              [m EXCEPT !.memberPresent = FALSE],
              [m EXCEPT !.permissions = NoPermissions],
              [m EXCEPT !.channelPresent = FALSE] } : m \in LateLinkEvents(e) }

EditEvents(e) == WellFormedEvents(e) \cup DefectiveEvents(e)

\* notification e as one more edit of the message of notification f, by the
\* same author in the same channel, its text being what that edit left
SameMessage(e, f, newContent, delay) ==
    [ BaseEvent(e, ev[f].permissions, <<ev[f].newContent, newContent>>, delay)
        EXCEPT !.id = ev[f].id, !.channelId = ev[f].channelId, !.authorId = ev[f].authorId,
               !.edited = TRUE, !.editedTimestamp = ev[f].now ]

\* a burst: late link edits of other messages, or of the message of the
\* first notification while that one may still be at an await
BurstEvents(e) ==
    LateLinkEvents(e)
    \cup (IF e = 1 THEN {} ELSE { SameMessage(e, 1, TextLinkMore, 1200000) })

\* edits of one message one after another: the next edit of a message
\* whose previous edit was allowed (the message is still there)
ReeditEvents(e) ==
    IF e = 1
    THEN { BaseEvent(1, {"SendMessages"}, pair, delay) :
             pair \in { <<TextHi, TextLink>>, <<TextHi, TextPlain>>, <<TextLink, TextLinkMore>> },
             delay \in EditDelays }
    ELSE IF outcome[e - 1] \notin {"allowed_no_link_change", "allowed_within_grace"} THEN {}
    ELSE { SameMessage(e, e - 1, newContent, delay) :
             newContent \in {TextHi, TextLink, TextLinkMore},
             delay \in { d \in EditDelays : d > ev[e - 1].now } }

\* notifications the handler ignores: of bots, of system messages, outside a guild
IgnoredEvents(e) ==
    UNION { { [m EXCEPT !.bot = TRUE],
              [m EXCEPT !.guildPresent = FALSE, !.memberPresent = FALSE,
                        !.permissions = NoPermissions],
              [m EXCEPT !.bot = TRUE, !.guildPresent = FALSE, !.memberPresent = FALSE,
                        !.permissions = NoPermissions] } : m \in WellFormedEvents(e) }

\* the notifications the gateway delivers as e
Feed(e) ==
    CASE gateway.events = "all" -> EditEvents(e)
      [] gateway.events = "late" -> BurstEvents(e)
      [] gateway.events = "reedit" -> ReeditEvents(e)
      [] gateway.events = "ignored" -> IgnoredEvents(e)

NoEvent == [ id |-> <<"none", 0>> ]

(***************************************************************************)
(* messageUpdate.js                                                        *)
(***************************************************************************)
GRACE_PERIOD_MINUTES == 10

\* the delay given to setTimeout, in ms
WARNING_DELETE_MS == 20000

\* supabase.js: substring(0, 1000)
CONTENT_LIMIT == 1000

Entry(op, a, b) == [op |-> op, a |-> a, b |-> b]
Log(level, message) == Entry("log", level, message)

\* the time since the previous edit of the message, where there was one
TimeDifferenceMs_sinceLastEdit(m) ==
    m.now - (IF m.edited THEN m.editedTimestamp ELSE m.createdTimestamp)

\* (currentTimestamp - originalTimestamp) in ms; the code divides by 60000
TimeDifferenceMs(m) == m.now - m.createdTimestamp

\* the grace test with < where the code has <=
WithinGracePeriod_strict(m) ==
    TimeDifferenceMs(m) < GRACE_PERIOD_MINUTES * 60000

\* timeDifferenceMinutes <= GRACE_PERIOD_MINUTES, both sides times 60000
WithinGracePeriod(m) ==
    TimeDifferenceMs(m) <= GRACE_PERIOD_MINUTES * 60000

\* the content stored whole
Substring_whole(content, n) == content

\* String.prototype.substring(0, n) behind ?.
Substring(content, n) ==
    IF content = Null THEN Null
    ELSE SubSeq(content, 1, IF Len(content) < n THEN Len(content) ELSE n)

NoRow == [action_taken |-> "none"]

\* supabase.js logLinkViolation: the row given to insert()
logLinkViolation(m, violationType, actionTaken) ==
    [ guild_id |-> GuildId,
      user_id |-> m.authorId,
      channel_id |-> m.channelId,
      message_id |-> m.id,
      violation_type |-> violationType,
      old_content |-> Substring(m.oldContent, CONTENT_LIMIT),
      new_content |-> Substring(m.newContent, CONTENT_LIMIT),
      action_taken |-> actionTaken ]

\* a content of n characters in which neighbours differ
LongText(n) == [i \in 1..n |-> IF i % 2 = 0 THEN "a" ELSE "b"]

\* contents given to logLinkViolation: absent, empty, short, and around the limit
LogContents ==
    { Null, <<>>, TextHi,
      LongText(CONTENT_LIMIT - 1), LongText(CONTENT_LIMIT),
      LongText(CONTENT_LIMIT + 1), LongText(CONTENT_LIMIT + CONTENT_LIMIT) }

NoCall ==
    [state |-> "idle", oldContent |-> Null, newContent |-> Null, row |-> NoRow,
     store |-> "none", value |-> FALSE, log |-> "none"]

\* how the promise of logLinkViolation settles, and the console line written
Settled(promise, value, log) == [state |-> promise, value |-> value, log |-> log]

\* lines 188-190: no error returned
OnInsertOk == Settled("fulfilled", TRUE, "logged_link_editing")

\* lines 180-183: insert() returned { error }
OnInsertError == Settled("fulfilled", FALSE, "failed_to_log_link_violation")

\* the catch logging the error and throwing it again
OnInsertThrow_rethrown == Settled("rejected", FALSE, "error_logging_link_violation")

\* lines 191-194: the catch around the whole body
OnInsertThrow == Settled("fulfilled", FALSE, "error_logging_link_violation")

\* what the synchronous part of the handler leaves behind
Step(nextPc, decision, entries, row) ==
    [pc |-> nextPc, outcome |-> decision, trace |-> entries, row |-> row,
     escaped |-> FALSE]

\* the outermost catch (lines 198-206): the error is logged and consumed
OuterCatch(entries) ==
    Step("done", "error", entries \o <<Log("error", "handler_error")>>, NoRow)

\* lines 23-31; reading newMessage.channel.id throws without a channel
ExemptBranch(m) ==
    IF ~m.channelPresent THEN OuterCatch(<<>>)
    ELSE Step("done", "exempt", <<Log("info", "moderator_edit_allowed")>>, NoRow)

\* lines 37-45
NoChangeBranch(m) ==
    IF ~m.channelPresent THEN OuterCatch(<<>>)
    ELSE Step("done", "allowed_no_link_change",
              <<Log("info", "no_url_change_allowed")>>, NoRow)

\* the grace branch returning without the logLinkViolation call
GraceBranch_unlogged(m, urlChanges) ==
    Step("done", "allowed_within_grace",
         <<Log("info", "link_edit_detected"), Log("info", "within_grace_allowed")>>,
         NoRow)

\* the grace branch going on to delete the message
GraceBranch_deleting(m, urlChanges) ==
    Step("awaitDelete", "allowed_within_grace",
         <<Log("info", "link_edit_detected"), Log("info", "within_grace_allowed"),
           Entry("persist", "allowed_within_grace_period", urlChanges.type),
           Entry("delete", m.id, m.channelId)>>,
         logLinkViolation(m, urlChanges.type, "allowed_within_grace_period"))

\* lines 69-98
GraceBranch(m, urlChanges) ==
    Step("done", "allowed_within_grace",
         <<Log("info", "link_edit_detected"), Log("info", "within_grace_allowed"),
           Entry("persist", "allowed_within_grace_period", urlChanges.type)>>,
         logLinkViolation(m, urlChanges.type, "allowed_within_grace_period"))

\* the violation branch awaiting logLinkViolation before the delete
ViolationBranch_awaiting(m, urlChanges) ==
    Step("awaitPersist", "violation",
         <<Log("info", "link_edit_detected"), Log("warn", "violation"),
           Entry("persist", "message_deleted", urlChanges.type)>>,
         logLinkViolation(m, urlChanges.type, "message_deleted"))

\* the violation branch calling delete() before logLinkViolation
ViolationBranch_deleteFirst(m, urlChanges) ==
    Step("awaitDelete", "violation",
         <<Log("info", "link_edit_detected"), Log("warn", "violation"),
           Entry("delete", m.id, m.channelId),
           Entry("persist", "message_deleted", urlChanges.type)>>,
         logLinkViolation(m, urlChanges.type, "message_deleted"))

\* lines 100-136, up to the await of newMessage.delete()
ViolationBranch(m, urlChanges) ==
    Step("awaitDelete", "violation",
         <<Log("info", "link_edit_detected"), Log("warn", "violation"),
           Entry("persist", "message_deleted", urlChanges.type),
           Entry("delete", m.id, m.channelId)>>,
         logLinkViolation(m, urlChanges.type, "message_deleted"))

\* the handler without the test of author.bot
messageUpdateSync_botsModerated(m) ==
    IF ~m.authorPresent THEN OuterCatch(<<>>)
    ELSE IF m.system THEN Step("done", "ignored", <<>>, NoRow)
    ELSE IF ~m.guildPresent THEN Step("done", "ignored", <<>>, NoRow)
    ELSE IF ~m.memberPresent THEN Step("done", "ignored", <<>>, NoRow)
    ELSE IF hasModeratorPermissions(m.memberPresent, m.permissions) THEN ExemptBranch(m)
    ELSE LET urlChanges == detectUrlChanges(m.oldContent, m.newContent) IN
         IF ~urlChanges.hasChangedUrls THEN NoChangeBranch(m)
         ELSE IF ~m.channelPresent THEN OuterCatch(<<>>)
         ELSE IF WithinGracePeriod(m) THEN GraceBranch(m, urlChanges)
         ELSE ViolationBranch(m, urlChanges)

\* the handler without the test of newMessage.member
messageUpdateSync_memberUnchecked(m) ==
    IF ~m.authorPresent THEN OuterCatch(<<>>)
    ELSE IF m.bot \/ m.system THEN Step("done", "ignored", <<>>, NoRow)
    ELSE IF ~m.guildPresent THEN Step("done", "ignored", <<>>, NoRow)
    ELSE IF hasModeratorPermissions(m.memberPresent, m.permissions) THEN ExemptBranch(m)
    ELSE LET urlChanges == detectUrlChanges(m.oldContent, m.newContent) IN
         IF ~urlChanges.hasChangedUrls THEN NoChangeBranch(m)
         ELSE IF ~m.channelPresent THEN OuterCatch(<<>>)
         ELSE IF WithinGracePeriod(m) THEN GraceBranch(m, urlChanges)
         ELSE ViolationBranch(m, urlChanges)

\* lines 12-136: the handler from its entry to its first await or return
messageUpdateSync(m) ==
    IF ~m.authorPresent THEN OuterCatch(<<>>)
    ELSE IF m.bot \/ m.system THEN Step("done", "ignored", <<>>, NoRow)
    ELSE IF ~m.guildPresent THEN Step("done", "ignored", <<>>, NoRow)
    ELSE IF ~m.memberPresent THEN Step("done", "ignored", <<>>, NoRow)
    ELSE IF hasModeratorPermissions(m.memberPresent, m.permissions) THEN ExemptBranch(m)
    ELSE LET urlChanges == detectUrlChanges(m.oldContent, m.newContent) IN
         IF ~urlChanges.hasChangedUrls THEN NoChangeBranch(m)
         ELSE IF ~m.channelPresent THEN OuterCatch(<<>>)
         ELSE IF WithinGracePeriod(m) THEN GraceBranch(m, urlChanges)
         ELSE ViolationBranch(m, urlChanges)


\* the notice channel.send(warningMessage) creates: `${newMessage.author}` mentions the author
WarningNotice(m) ==
    [evt |-> m.id, edit |-> m.edit, channel |-> m.channelId, kind |-> "warning",
     mentions |-> m.authorId, removed |-> FALSE]

\* the notice channel.send(fallbackWarning) creates
FallbackNotice(m) ==
    [evt |-> m.id, edit |-> m.edit, channel |-> m.channelId, kind |-> "fallback",
     mentions |-> m.authorId, removed |-> FALSE]

NoTimer == [state |-> "none", delay |-> 0]

\* the handler returning after the send without the setTimeout call
ScheduleRemoval_forgotten == NoTimer

\* lines 151-166: setTimeout(callback, 20000)
ScheduleRemoval == [state |-> "scheduled", delay |-> WARNING_DELETE_MS]

Cont(nextPc, entries) == [pc |-> nextPc, trace |-> entries]

\* the timer set before the warning is sent
OnDeleteSuccess_timerFirst(m) ==
    Cont("awaitSend",
         <<Log("success", "message_deleted"), Entry("setTimeout", m.channelId, "warning"),
           Entry("send", m.channelId, "warning")>>)

\* lines 137-148: the delete succeeded; the warning is sent
OnDeleteSuccess(m) ==
    Cont("awaitSend",
         <<Log("success", "message_deleted"), Entry("send", m.channelId, "warning")>>)

\* the catch of the delete calling delete() once more
OnDeleteError_retrying(m) ==
    Cont("awaitDelete",
         <<Log("error", "failed_to_delete_message"), Entry("delete", m.id, m.channelId)>>)

\* the catch of the delete logging the failure without the fallback notice
OnDeleteError_silent(m) ==
    Cont("done", <<Log("error", "failed_to_delete_message")>>)

\* lines 168-181: the catch of the try around delete() and send()
OnDeleteError(m) ==
    Cont("awaitFallback",
         <<Log("error", "failed_to_delete_message"), Entry("send", m.channelId, "fallback")>>)

\* lines 183-187
OnFallbackSuccess(m) == Cont("done", <<Log("info", "fallback_sent")>>)

\* lines 188-195
OnFallbackError(m) == Cont("done", <<Log("error", "failed_to_send_warning")>>)

Caught(entries) == [escaped |-> FALSE, trace |-> entries]

\* the timer callback without its try/catch: the rejection leaves the callback
OnRemovalError_uncaught(m) == [escaped |-> TRUE, trace |-> <<>>]

\* the catch of the timer callback telling the channel about the failure
OnRemovalError_resending(m) ==
    Caught(<<Log("warn", "could_not_delete_warning"), Entry("send", m.channelId, "fallback")>>)

\* lines 159-165: the catch inside the timer callback
OnRemovalError(m) == Caught(<<Log("warn", "could_not_delete_warning")>>)

\* one variable at module level holding the warning sent last, in place of
\* the const of each call
sentWarning_moduleLevel(e) ==
    LET warnings == { n \in notices : n.kind = "warning" } IN
    CHOOSE n \in warnings : \A k \in warnings : k.edit <= n.edit

\* line 148: const sentWarning, the notice this call of the handler sent,
\* which the timer callback of this call closes over
sentWarning(e) == WarningNotice(ev[e])

(***************************************************************************)
(* The handler and its continuations as actions.                           *)
(***************************************************************************)
\* client.on('messageUpdate', ...): notification e is delivered and the
\* handler runs to its first await or to its return
messageUpdate(e) ==
    /\ pc[e] = "idle"
    /\ \A f \in Evts : f < e => pc[f] # "idle"
    /\ gateway.left > 0
    /\ gateway' = [gateway EXCEPT !.left = @ - 1]
    /\ \E m \in Feed(e) :
          LET r == messageUpdateSync(m) IN
          /\ ev' = [ev EXCEPT ![e] = m]
          /\ pc' = [pc EXCEPT ![e] = r.pc]
          /\ outcome' = [outcome EXCEPT ![e] = r.outcome]
          /\ trace' = [trace EXCEPT ![e] = r.trace]
          /\ db' = [db EXCEPT ![e] =
                      [state |-> IF r.row = NoRow THEN "none" ELSE "pending",
                       row |-> r.row]]
          /\ del' = [del EXCEPT ![e] = IF r.pc = "awaitDelete" THEN "pending" ELSE "none"]
          /\ escaped' = [escaped EXCEPT ![e] = r.escaped]
    /\ UNCHANGED <<notices, timer, helperVars>>

\* the insert() of logLinkViolation settles: a row stored, an error returned
\* or an exception thrown; the promise of logLinkViolation fulfils each time
PersistSettled(e) ==
    /\ db[e].state = "pending"
    /\ \E result \in {"stored", "error", "threw"} :
          db' = [db EXCEPT ![e].state = result]
    /\ UNCHANGED <<gateway, ev, pc, outcome, trace, del, notices, timer, escaped, helperVars>>

\* await newMessage.delete() fulfils
DeleteResolved(e) ==
    /\ pc[e] = "awaitDelete"
    /\ LET c == OnDeleteSuccess(ev[e]) IN
          /\ pc' = [pc EXCEPT ![e] = c.pc]
          /\ trace' = [trace EXCEPT ![e] = @ \o c.trace]
    /\ del' = [del EXCEPT ![e] = "deleted"]
    /\ UNCHANGED <<gateway, ev, outcome, db, notices, timer, escaped, helperVars>>

\* await newMessage.delete() rejects
DeleteRejected(e) ==
    /\ pc[e] = "awaitDelete"
    /\ LET c == OnDeleteError(ev[e]) IN
          /\ pc' = [pc EXCEPT ![e] = c.pc]
          /\ trace' = [trace EXCEPT ![e] = @ \o c.trace]
    /\ del' = [del EXCEPT ![e] = "failed"]
    /\ UNCHANGED <<gateway, ev, outcome, db, notices, timer, escaped, helperVars>>

\* await newMessage.channel.send(warningMessage) fulfils: the timer is set
SendResolved(e) ==
    /\ pc[e] = "awaitSend"
    /\ notices' = notices \cup {WarningNotice(ev[e])}
    /\ timer' = [timer EXCEPT ![e] = ScheduleRemoval]
    /\ trace' = [trace EXCEPT ![e] = @ \o <<Entry("setTimeout", ev[e].channelId, "warning")>>]
    /\ pc' = [pc EXCEPT ![e] = "done"]
    /\ UNCHANGED <<gateway, ev, outcome, db, del, escaped, helperVars>>

\* await newMessage.channel.send(warningMessage) rejects inside the same try
SendRejected(e) ==
    /\ pc[e] = "awaitSend"
    /\ LET c == OnDeleteError(ev[e]) IN
          /\ pc' = [pc EXCEPT ![e] = c.pc]
          /\ trace' = [trace EXCEPT ![e] = @ \o c.trace]
    /\ UNCHANGED <<gateway, ev, outcome, db, del, notices, timer, escaped, helperVars>>

\* await newMessage.channel.send(fallbackWarning) fulfils
FallbackResolved(e) ==
    /\ pc[e] = "awaitFallback"
    /\ notices' = notices \cup {FallbackNotice(ev[e])}
    /\ LET c == OnFallbackSuccess(ev[e]) IN
          /\ pc' = [pc EXCEPT ![e] = c.pc]
          /\ trace' = [trace EXCEPT ![e] = @ \o c.trace]
    /\ UNCHANGED <<gateway, ev, outcome, db, del, timer, escaped, helperVars>>

\* await newMessage.channel.send(fallbackWarning) rejects
FallbackRejected(e) ==
    /\ pc[e] = "awaitFallback"
    /\ LET c == OnFallbackError(ev[e]) IN
          /\ pc' = [pc EXCEPT ![e] = c.pc]
          /\ trace' = [trace EXCEPT ![e] = @ \o c.trace]
    /\ UNCHANGED <<gateway, ev, outcome, db, del, notices, timer, escaped, helperVars>>

\* the timer expires: the callback calls sentWarning.delete()
TimerFired(e) ==
    /\ timer[e].state = "scheduled"
    /\ timer' = [timer EXCEPT ![e].state = "deleting"]
    /\ trace' = [trace EXCEPT ![e] = @ \o <<Entry("removeNotice", ev[e].channelId, "warning")>>]
    /\ UNCHANGED <<gateway, ev, pc, outcome, db, del, notices, escaped, helperVars>>

\* await sentWarning.delete() fulfils
RemovalResolved(e) ==
    /\ timer[e].state = "deleting"
    /\ timer' = [timer EXCEPT ![e].state = "removed"]
    /\ notices' = (notices \ {sentWarning(e)})
                      \cup {[sentWarning(e) EXCEPT !.removed = TRUE]}
    /\ trace' = [trace EXCEPT ![e] = @ \o <<Log("info", "warning_auto_deleted")>>]
    /\ UNCHANGED <<gateway, ev, pc, outcome, db, del, escaped, helperVars>>

\* await sentWarning.delete() rejects
RemovalRejected(e) ==
    /\ timer[e].state = "deleting"
    /\ timer' = [timer EXCEPT ![e].state = "failed"]
    /\ LET c == OnRemovalError(ev[e]) IN
          /\ escaped' = [escaped EXCEPT ![e] = c.escaped]
          /\ trace' = [trace EXCEPT ![e] = @ \o c.trace]
    /\ UNCHANGED <<gateway, ev, pc, outcome, db, del, notices, helperVars>>

(***************************************************************************)
(* announcement.js: the static announcement sent when the client is ready. *)
(***************************************************************************)
\* messages.fetch({ limit: 20 })
FETCH_LIMIT == 20

\* the title the duplicate check compares with
TitleChecked == "About GigglesD"

\* the title of the embed that is sent
TitleSent == "Welcome to ACW - A Conversation Worldwide"

\* perChannelContent: the section embeds, in the order of the loop
perChannelContent ==
    << [channelKey |-> "whatIsAgenci", title |-> "What is AgencI?"],
       [channelKey |-> "byLocation", title |-> "ACW by Location - Let's Make It Local"],
       [channelKey |-> "rules", title |-> "ACW Community Guidelines"],
       [channelKey |-> "agenciHelp", title |-> "AgencI Help & Support"] >>

SectionKeys == { perChannelContent[i].channelKey : i \in DOMAIN perChannelContent }

\* a message of the bot carrying one embed
BotMessage(title) == [author |-> "bot", title |-> title]

\* a message of somebody else, without embed
OtherMessage == [author |-> "other", title |-> ""]

\* the FETCH_LIMIT most recent messages of a channel (the channel is kept
\* oldest first)
recentMessages(messages) ==
    IF Len(messages) <= FETCH_LIMIT THEN messages
    ELSE SubSeq(messages, Len(messages) - FETCH_LIMIT + 1, Len(messages))

\* recentMessages.find(msg => msg.author.id === guild.members.me.id &&
\*                            msg.embeds?.[0]?.title === 'About GigglesD')
alreadyExists(fetched) ==
    \E i \in DOMAIN fetched : fetched[i].author = "bot" /\ fetched[i].title = TitleChecked

NoRun == [pc |-> "idle", runs |-> 0, outcome |-> "none", hadMain |-> FALSE, sent |-> 0]

AnnounceIdle ==
    /\ about = [present |-> FALSE, messages |-> <<>>]
    /\ sections = [present |-> {}, posted |-> {}]
    /\ announce = NoRun

(***************************************************************************)
(* The guild: its channels, the bot's permissions in them, its settings.   *)
(***************************************************************************)
\* String.prototype.toLowerCase on the letters of the channel names in use
LowerCase(c) ==
    CASE c = "N" -> "n"
      [] c = "J" -> "j"
      [] c = "W" -> "w"
      [] OTHER -> c

toLowerCase(name) == [i \in DOMAIN name |-> LowerCase(name[i])]

\* String.prototype.includes
Includes(name, part) ==
    \E i \in 0..(Len(name) - Len(part)) : SubSeq(name, i + 1, i + Len(part)) = part

NewJoiners == <<"n","e","w","-","j","o","i","n","e","r","s">>

\* helpers.js findBestWelcomeChannel: welcomeChannelNames
welcomeChannelNames ==
    << <<"w","e","l","c","o","m","e">>,
       <<"w","e","l","c","o","m","e","s">>,
       <<"n","e","w","-","m","e","m","b","e","r","s">>,
       <<"g","r","e","e","t","i","n","g","s">>,
       <<"g","e","n","e","r","a","l">>,
       <<"m","a","i","n">>,
       <<"l","o","b","b","y">>,
       <<"e","n","t","r","a","n","c","e">>,
       <<"a","n","n","o","u","n","c","e","m","e","n","t","s">>,
       <<"c","o","m","m","u","n","i","t","y">> >>

\* guildCreate.js: channelNames
channelNames ==
    << <<"g","e","n","e","r","a","l">>,
       <<"m","a","i","n">>,
       <<"w","e","l","c","o","m","e">>,
       <<"a","n","n","o","u","n","c","e","m","e","n","t","s">>,
       <<"b","o","t","-","c","o","m","m","a","n","d","s">> >>

\* the names of the channels of the guilds explored
ChannelNameChoices ==
    { <<"N","e","w","-","J","o","i","n","e","r","s">>,
      <<"W","e","l","c","o","m","e">>,
      <<"m","a","i","n">>,
      <<"m","i","s","c">> }

\* channel.type (0 a text channel, 2 a voice channel) and the value of
\* channel.permissionsFor(guild.members.me)
ChannelShapes ==
    { [type |-> 0, permissions |-> {"ViewChannel", "SendMessages"}],
      [type |-> 0, permissions |-> {"ViewChannel"}],
      [type |-> 2, permissions |-> {"ViewChannel", "SendMessages"}] }

Channels ==
    { [name |-> n, type |-> sh.type, permissions |-> sh.permissions] :
        n \in ChannelNameChoices, sh \in ChannelShapes }

\* guild.channels.cache, in the order of the collection
ChannelCaches == UNION { [1..n -> Channels] : n \in 0..MaxChannels }

\* the id of the channel at each position of the cache
ChannelIds == <<"c1", "c2", "c3", "c4">>

\* an id no channel of the cache has
UnknownChannelId == "c9"

\* guild.channels.cache.get(id): the position of the channel, 0 for undefined
CacheGet(g, id) ==
    LET found == { i \in DOMAIN g.channels : ChannelIds[i] = id } IN
    IF found = {} THEN 0 ELSE CHOOSE i \in found : TRUE

\* collection.find(fn): the first position satisfying fn, 0 for undefined
CacheFind(matching) ==
    IF matching = {} THEN 0 ELSE CHOOSE i \in matching : \A j \in matching : i <= j

\* channel.permissionsFor(botMember): null when the member does not resolve
permissionsFor(g, i) == IF g.me THEN g.channels[i].permissions ELSE NoPermissions

\* permissions?.has(['ViewChannel', 'SendMessages'])
HasViewAndSend(permissions) ==
    /\ permissions # NoPermissions
    /\ PermissionsHas(permissions, "ViewChannel")
    /\ PermissionsHas(permissions, "SendMessages")

\* helpers.js isChannelSuitable(channel, botMember); position 0 is no channel
isChannelSuitable(g, i) ==
    /\ i # 0
    /\ g.me
    /\ g.channels[i].type = 0
    /\ HasViewAndSend(permissionsFor(g, i))

\* the loop over welcomeChannelNames: the first name with a match decides
NameMatch(g) ==
    LET matches(k) == { i \in DOMAIN g.channels :
                          /\ Includes(toLowerCase(g.channels[i].name), welcomeChannelNames[k])
                          /\ isChannelSuitable(g, i) }
        hits == { k \in DOMAIN welcomeChannelNames : matches(k) # {} }
    IN IF hits = {} THEN 0
       ELSE CacheFind(matches(CHOOSE k \in hits : \A l \in hits : k <= l))

findBestWelcomeChannel_systemFirst(g, preferredChannelId) ==
    IF ~g.me THEN 0
    ELSE IF isChannelSuitable(g, CacheGet(g, g.systemChannelId))
         THEN CacheGet(g, g.systemChannelId)
    ELSE IF preferredChannelId # "null" /\ isChannelSuitable(g, CacheGet(g, preferredChannelId))
         THEN CacheGet(g, preferredChannelId)
    ELSE IF NameMatch(g) # 0 THEN NameMatch(g)
    ELSE CacheFind({ i \in DOMAIN g.channels : isChannelSuitable(g, i) })

\* helpers.js findBestWelcomeChannel(guild, preferredChannelId): the position
\* of the channel returned, 0 for null
findBestWelcomeChannel(g, preferredChannelId) ==
    IF ~g.me THEN 0
    ELSE IF preferredChannelId # "null" /\ isChannelSuitable(g, CacheGet(g, preferredChannelId))
         THEN CacheGet(g, preferredChannelId)
    ELSE IF isChannelSuitable(g, CacheGet(g, g.systemChannelId))
         THEN CacheGet(g, g.systemChannelId)
    ELSE IF NameMatch(g) # 0 THEN NameMatch(g)
    ELSE CacheFind({ i \in DOMAIN g.channels : isChannelSuitable(g, i) })

\* guildMemberAdd.js 34-43: #new-joiners first, then the helper
welcomeChannel(g, preferredChannelId) ==
    LET newJoiners == CacheFind({ i \in DOMAIN g.channels :
                                    /\ g.channels[i].type = 0
                                    /\ toLowerCase(g.channels[i].name) = NewJoiners
                                    /\ HasViewAndSend(permissionsFor(g, i)) })
    IN IF newJoiners # 0 THEN newJoiners
       ELSE findBestWelcomeChannel(g, preferredChannelId)

\* guildCreate.js 47-68: the channel of the setup message
setupChannel(g) ==
    LET named(k) == { i \in DOMAIN g.channels :
                        /\ Includes(toLowerCase(g.channels[i].name), channelNames[k])
                        /\ g.channels[i].type = 0 }
        hits == { k \in DOMAIN channelNames : named(k) # {} }
    IN IF CacheGet(g, g.systemChannelId) # 0 THEN CacheGet(g, g.systemChannelId)
       ELSE IF hits # {} THEN CacheFind(named(CHOOSE k \in hits : \A l \in hits : k <= l))
       ELSE CacheFind({ i \in DOMAIN g.channels :
                          /\ g.channels[i].type = 0
                          /\ HasViewAndSend(permissionsFor(g, i)) })

\* supabase.js upsertGuildSettings: the template of defaultSettings
DefaultTemplate == "Welcome to {guild}, {user}!"

\* guildCreate.js: the template given on joining a guild
CreatedTemplate == "Welcome to ${guild.name}, {user}! We're glad to have you here!"

\* a template an administrator wrote into the table
CustomTemplate == "Hello {user}"

\* no row of the guild in the table; also the null of getGuildSettings
NoSettings ==
    [present |-> FALSE, welcome_channel_id |-> "null", welcome_message |-> "",
     is_active |-> FALSE]

\* supabase.js upsertGuildSettings: defaultSettings before ...settings
defaultSettings ==
    [welcome_channel_id |-> "null", welcome_message |-> DefaultTemplate, is_active |-> TRUE]

\* supabase.js upsertGuildSettings(guildId, guildName, settings): the row
\* given to upsert(); the columns of the row replace the stored ones
upsertGuildSettings(stored, settings) ==
    LET row == settings @@ defaultSettings IN
    [present |-> TRUE] @@ row @@ stored

SkipsWelcome_inactiveWelcomed(guildSettings) == ~guildSettings.present

\* guildMemberAdd.js 28: !guildSettings || !guildSettings.is_active
SkipsWelcome(guildSettings) == ~guildSettings.present \/ ~guildSettings.is_active

NoJoin ==
    [pc |-> "idle", log |-> "none", fetched |-> FALSE, settings |-> NoSettings,
     chose |-> FALSE, channel |-> 0, welcome |-> "none", dm |-> "none"]

NoCreate == [pc |-> "idle", channel |-> 0, setup |-> "none"]

NoLeave == [pc |-> "idle", result |-> "none", before |-> NoSettings, after |-> NoSettings]

NoGuild == [joined |-> FALSE, me |-> FALSE, channels |-> <<>>, systemChannelId |-> "null"]

OnboardIdle ==
    /\ guild = NoGuild
    /\ guilds = NoSettings
    /\ create = NoCreate
    /\ leave = NoLeave
    /\ join = NoJoin

ServerIdle == AnnounceIdle /\ OnboardIdle

Unset == [hasChangedUrls |-> FALSE, type |-> "unset"]

DetectIdle == dOld = Null /\ dNew = Null /\ dRes = Unset

CallsIdle == lastIndex = 0 /\ calls = <<>>

NotCalled == [called |-> FALSE, value |-> FALSE]

PermIdle ==
    /\ member = [memberPresent |-> FALSE, permissions |-> NoPermissions]
    /\ mRes = NotCalled

LogIdle == supabaseClient = "null" /\ lv = NoCall

EvaluationsIdle ==
    /\ ev = [e \in Evts |-> NoEvent]
    /\ pc = [e \in Evts |-> "idle"]
    /\ outcome = [e \in Evts |-> "none"]
    /\ trace = [e \in Evts |-> <<>>]
    /\ db = [e \in Evts |-> [state |-> "none", row |-> NoRow]]
    /\ del = [e \in Evts |-> "none"]
    /\ notices = {}
    /\ timer = [e \in Evts |-> NoTimer]
    /\ escaped = [e \in Evts |-> FALSE]

HandlerIdle ==
    /\ gateway = [left |-> MaxEvents, events |-> "all"]
    /\ EvaluationsIdle

Init == HandlerIdle /\ DetectIdle /\ CallsIdle /\ PermIdle /\ LogIdle /\ ServerIdle

Next ==
    \E e \in Evts :
        \/ messageUpdate(e)
        \/ PersistSettled(e)
        \/ DeleteResolved(e)
        \/ DeleteRejected(e)
        \/ SendResolved(e)
        \/ SendRejected(e)
        \/ FallbackResolved(e)
        \/ FallbackRejected(e)
        \/ TimerFired(e)
        \/ RemovalResolved(e)
        \/ RemovalRejected(e)

Spec == Init /\ [][Next]_vars

\* the event loop runs an expired timer's callback
FairSpec == Spec /\ \A e \in Evts : WF_vars(TimerFired(e))

(***************************************************************************)
(* A burst: late link edits delivered while earlier ones are still at an   *)
(* await (the emitter does not wait for the promise the handler returns).  *)
(***************************************************************************)
InitBurst ==
    /\ gateway = [left |-> MaxEvents + 1, events |-> "late"]
    /\ EvaluationsIdle
    /\ DetectIdle /\ CallsIdle /\ PermIdle /\ LogIdle /\ ServerIdle

SpecBurst == InitBurst /\ [][Next]_vars

(***************************************************************************)
(* One message edited again and again, each edit after the previous one    *)
(* was handled.                                                            *)
(***************************************************************************)
InitReedit ==
    /\ gateway = [left |-> MaxEvents + 1, events |-> "reedit"]
    /\ EvaluationsIdle
    /\ DetectIdle /\ CallsIdle /\ PermIdle /\ LogIdle /\ ServerIdle

SpecReedit == InitReedit /\ [][Next]_vars

(***************************************************************************)
(* Notifications of bots, of system messages and from outside a guild.     *)
(***************************************************************************)
InitIgnored ==
    /\ gateway = [left |-> MaxEvents, events |-> "ignored"]
    /\ EvaluationsIdle
    /\ DetectIdle /\ CallsIdle /\ PermIdle /\ LogIdle /\ ServerIdle

NextIgnored == \E e \in Evts : messageUpdate(e)

SpecIgnored == InitIgnored /\ [][NextIgnored]_vars

(***************************************************************************)
(* detectUrlChanges called on every pair of contents.                      *)
(***************************************************************************)
InitDetect ==
    /\ HandlerIdle
    /\ dOld \in Contents
    /\ dNew \in Contents
    /\ dRes = Unset
    /\ CallsIdle /\ PermIdle /\ LogIdle /\ ServerIdle

Detect ==
    /\ dRes = Unset
    /\ dRes' = detectUrlChanges(dOld, dNew)
    /\ UNCHANGED <<dOld, dNew, callVars, permVars, logVars, handlerVars, serverVars>>

NextDetect == Detect

SpecDetect == InitDetect /\ [][NextDetect]_vars

(***************************************************************************)
(* detectUrlChanges called up to MaxCalls times in a row.                  *)
(***************************************************************************)
CallContents ==
    { Null, TextHi, <<"h","t","t","p","s",":","/","/","x">>, TextLinkMore }

DetectCall ==
    /\ Len(calls) < MaxCalls
    /\ \E oldContent \in CallContents, newContent \in CallContents :
          LET r == detectUrlChangesCall(oldContent, newContent, lastIndex) IN
          /\ calls' = Append(calls, [oldContent |-> oldContent, newContent |-> newContent,
                                     result |-> r.result])
          /\ lastIndex' = r.lastIndex
    /\ UNCHANGED <<detectVars, permVars, logVars, handlerVars, serverVars>>

NextCalls == DetectCall

SpecCalls == Init /\ [][NextCalls]_vars

(***************************************************************************)
(* hasModeratorPermissions called on every member.                         *)
(***************************************************************************)
InitPermissions ==
    /\ HandlerIdle
    /\ DetectIdle
    /\ CallsIdle
    /\ LogIdle /\ ServerIdle
    /\ member \in Members
    /\ mRes = NotCalled

CheckMember ==
    /\ ~mRes.called
    /\ mRes' = [called |-> TRUE,
                value |-> hasModeratorPermissions(member.memberPresent, member.permissions)]
    /\ UNCHANGED <<member, detectVars, callVars, logVars, handlerVars, serverVars>>

NextPermissions == CheckMember

SpecPermissions == InitPermissions /\ [][NextPermissions]_vars

(***************************************************************************)
(* logLinkViolation called once, before or after initializeSupabase.       *)
(***************************************************************************)
\* supabase.js initializeSupabase: createClient
initializeSupabase ==
    /\ supabaseClient = "null"
    /\ supabaseClient' = "client"
    /\ UNCHANGED <<lv, detectVars, callVars, permVars, handlerVars, serverVars>>

\* the call up to its await: supabaseClient.from(...) throws on a null
\* client before the row is built; otherwise the row is given to insert()
logLinkViolationCall ==
    /\ lv.state = "idle"
    /\ \E oldContent \in LogContents, newContent \in LogContents,
          actionTaken \in {"message_deleted", "allowed_within_grace_period"} :
          LET m == BaseEvent(1, {"SendMessages"}, <<oldContent, newContent>>, 600001)
              call == [NoCall EXCEPT !.oldContent = oldContent, !.newContent = newContent]
          IN lv' = IF supabaseClient = "null"
                   THEN OnInsertThrow @@ [call EXCEPT !.store = "uninitialised"]
                   ELSE [call EXCEPT !.state = "awaitInsert",
                                     !.row = logLinkViolation(m, "added", actionTaken)]
    /\ UNCHANGED <<supabaseClient, detectVars, callVars, permVars, handlerVars, serverVars>>

\* await insert() fulfils without error
InsertStored ==
    /\ lv.state = "awaitInsert"
    /\ lv' = OnInsertOk @@ [lv EXCEPT !.store = "stored"]
    /\ UNCHANGED <<supabaseClient, detectVars, callVars, permVars, handlerVars, serverVars>>

\* await insert() fulfils with { error }
InsertReturnedError ==
    /\ lv.state = "awaitInsert"
    /\ lv' = OnInsertError @@ [lv EXCEPT !.store = "error"]
    /\ UNCHANGED <<supabaseClient, detectVars, callVars, permVars, handlerVars, serverVars>>

\* insert() throws or its promise rejects
InsertThrew ==
    /\ lv.state = "awaitInsert"
    /\ lv' = OnInsertThrow @@ [lv EXCEPT !.store = "threw"]
    /\ UNCHANGED <<supabaseClient, detectVars, callVars, permVars, handlerVars, serverVars>>

NextLog ==
    \/ initializeSupabase
    \/ logLinkViolationCall
    \/ InsertStored
    \/ InsertReturnedError
    \/ InsertThrew

SpecLog == Init /\ [][NextLog]_vars

(***************************************************************************)
(* The bot started up to MaxRuns times in a guild whose announcement       *)
(* channel other people post in. index.js awaits sendStaticAnnouncement    *)
(* guild by guild, each guild on its own channels: one guild is modelled.  *)
(***************************************************************************)
InitAnnounce ==
    /\ HandlerIdle /\ DetectIdle /\ CallsIdle /\ PermIdle /\ LogIdle /\ OnboardIdle
    /\ about \in { [present |-> FALSE, messages |-> <<>>],
                   [present |-> TRUE, messages |-> <<>>],
                   [present |-> TRUE, messages |-> <<BotMessage(TitleChecked)>>] }
    /\ \E present \in { {}, {"rules"}, SectionKeys } :
          sections = [present |-> present, posted |-> {}]
    /\ announce = NoRun

\* index.js ready: sendStaticAnnouncement(guild) up to its first await; no
\* channel whose name includes 'about' ends the call
sendStaticAnnouncement ==
    /\ announce.pc \in {"idle", "done"}
    /\ announce.runs < MaxRuns
    /\ announce' = [pc |-> IF about.present THEN "fetch" ELSE "done",
                    runs |-> announce.runs + 1,
                    outcome |-> IF about.present THEN "running" ELSE "no_channel",
                    hadMain |-> FALSE,
                    sent |-> 0]
    /\ UNCHANGED <<about, sections, onboardVars, detectVars, callVars, permVars, logVars, handlerVars>>

\* await announcementChannel.messages.fetch({ limit: 20 }) fulfils: the
\* duplicate check
MessagesFetched ==
    /\ announce.pc = "fetch"
    /\ LET fetched == recentMessages(about.messages) IN
          announce' = [announce EXCEPT
              !.pc = IF alreadyExists(fetched) THEN "done" ELSE "send",
              !.outcome = IF alreadyExists(fetched) THEN "exists" ELSE "running",
              !.hadMain = \E i \in DOMAIN fetched : fetched[i] = BotMessage(TitleSent)]
    /\ UNCHANGED <<about, sections, onboardVars, detectVars, callVars, permVars, logVars, handlerVars>>

\* the fetch rejects: the outer catch logs
MessagesFetchFailed ==
    /\ announce.pc = "fetch"
    /\ announce' = [announce EXCEPT !.pc = "done", !.outcome = "error"]
    /\ UNCHANGED <<about, sections, onboardVars, detectVars, callVars, permVars, logVars, handlerVars>>

\* await announcementChannel.send({ files, embeds: [textEmbed] }) fulfils
AnnouncementSent ==
    /\ announce.pc = "send"
    /\ about' = [about EXCEPT !.messages = Append(@, BotMessage(TitleSent))]
    /\ announce' = [announce EXCEPT !.pc = "sections", !.sent = @ + 1]
    /\ UNCHANGED <<sections, onboardVars, detectVars, callVars, permVars, logVars, handlerVars>>

\* the send rejects: the outer catch logs, the section loop is not reached
AnnouncementSendFailed ==
    /\ announce.pc = "send"
    /\ announce' = [announce EXCEPT !.pc = "done", !.outcome = "error"]
    /\ UNCHANGED <<about, sections, onboardVars, detectVars, callVars, permVars, logVars, handlerVars>>

\* the loop over perChannelContent: an item is skipped when its channel is
\* missing or holds its embed already; a send that rejects is logged and the
\* loop goes on; a fetch that rejects ends the loop in the outer catch
SectionsLoop(reached, failed) ==
    sections.posted \cup
        { perChannelContent[i].channelKey : i \in
            { k \in 1..reached :
                /\ perChannelContent[k].channelKey \in sections.present
                /\ perChannelContent[k].channelKey \notin sections.posted
                /\ perChannelContent[k].channelKey \notin failed } }

SectionsAnnounced ==
    /\ announce.pc = "sections"
    /\ \E reached \in {0, Len(perChannelContent)},
          failed \in { {}, {"rules"} } :
          /\ sections' = [sections EXCEPT !.posted = SectionsLoop(reached, failed)]
          /\ announce' = [announce EXCEPT
                !.pc = "done",
                !.outcome = IF reached = Len(perChannelContent) THEN "sent" ELSE "error"]
    /\ UNCHANGED <<about, onboardVars, detectVars, callVars, permVars, logVars, handlerVars>>

\* somebody else posts in the announcement channel
OtherPosts ==
    /\ about.present
    /\ Cardinality({ i \in DOMAIN about.messages : about.messages[i] = OtherMessage }) < MaxPosts
    /\ about' = [about EXCEPT !.messages = Append(@, OtherMessage)]
    /\ UNCHANGED <<sections, announce, onboardVars, detectVars, callVars, permVars, logVars, handlerVars>>

NextAnnounce ==
    \/ sendStaticAnnouncement
    \/ MessagesFetched
    \/ MessagesFetchFailed
    \/ AnnouncementSent
    \/ AnnouncementSendFailed
    \/ SectionsAnnounced
    \/ OtherPosts

SpecAnnounce == InitAnnounce /\ [][NextAnnounce]_vars

(***************************************************************************)
(* The bot joins and leaves a guild, an administrator edits the settings,  *)
(* members join. eventHandler.js registers the three handlers; the emitter *)
(* does not wait for them, so they meet at their awaits.                   *)
(***************************************************************************)
\* guildCreate.js up to await upsertGuildSettings
guildCreate ==
    /\ ~guild.joined
    /\ create.pc \in {"idle", "done"}
    /\ guild' = [guild EXCEPT !.joined = TRUE]
    /\ create' = [pc |-> "upsert", channel |-> 0, setup |-> "none"]
    /\ UNCHANGED <<guilds, leave, join, announceVars, detectVars, callVars, permVars,
                   logVars, handlerVars>>

\* after the upsert: the channel of the setup message is looked for
AfterCreateUpsert ==
    LET channel == setupChannel(guild) IN
    IF channel = 0 THEN [pc |-> "done", channel |-> 0, setup |-> "no_channel"]
    ELSE [pc |-> "setup", channel |-> channel, setup |-> "none"]

\* the upsert of guildCreate stores the row
SettingsCreated ==
    /\ create.pc = "upsert"
    /\ guilds' = upsertGuildSettings(guilds, [welcome_message |-> CreatedTemplate,
                                              is_active |-> TRUE])
    /\ create' = AfterCreateUpsert
    /\ UNCHANGED <<guild, leave, join, announceVars, detectVars, callVars, permVars,
                   logVars, handlerVars>>

\* the upsert returns an error or throws: upsertGuildSettings logs and
\* returns false, guildCreate goes on
SettingsCreateFailed ==
    /\ create.pc = "upsert"
    /\ create' = AfterCreateUpsert
    /\ UNCHANGED <<guild, guilds, leave, join, announceVars, detectVars, callVars,
                   permVars, logVars, handlerVars>>

\* await systemChannel.send(setupMessage) fulfils
SetupMessageSent ==
    /\ create.pc = "setup"
    /\ create' = [create EXCEPT !.pc = "done", !.setup = "sent"]
    /\ UNCHANGED <<guild, guilds, leave, join, announceVars, detectVars, callVars,
                   permVars, logVars, handlerVars>>

\* the send rejects: logged
SetupMessageFailed ==
    /\ create.pc = "setup"
    /\ create' = [create EXCEPT !.pc = "done", !.setup = "failed"]
    /\ UNCHANGED <<guild, guilds, leave, join, announceVars, detectVars, callVars,
                   permVars, logVars, handlerVars>>

\* an administrator edits the row of the guild in the table
SettingsEdited ==
    /\ guilds.present
    /\ \E id \in {"null", "c1"}, message \in {guilds.welcome_message, CustomTemplate} :
          /\ <<id, message>> # <<guilds.welcome_channel_id, guilds.welcome_message>>
          /\ guilds' = [present |-> TRUE, welcome_channel_id |-> id,
                        welcome_message |-> message, is_active |-> guilds.is_active]
    /\ UNCHANGED <<guild, create, leave, join, announceVars, detectVars, callVars,
                   permVars, logVars, handlerVars>>

\* guildDelete.js up to await upsertGuildSettings
guildDelete ==
    /\ guild.joined
    /\ leave.pc \in {"idle", "done"}
    /\ guild' = [guild EXCEPT !.joined = FALSE]
    /\ leave' = [NoLeave EXCEPT !.pc = "upsert"]
    /\ UNCHANGED <<guilds, create, join, announceVars, detectVars, callVars, permVars,
                   logVars, handlerVars>>

\* the upsert of guildDelete stores the row; before and after are the row
\* of the guild right before and right after the statement
SettingsDeactivated ==
    /\ leave.pc = "upsert"
    /\ guilds' = upsertGuildSettings(guilds, [is_active |-> FALSE])
    /\ leave' = [pc |-> "done", result |-> "stored", before |-> guilds, after |-> guilds']
    /\ UNCHANGED <<guild, create, join, announceVars, detectVars, callVars, permVars,
                   logVars, handlerVars>>

\* the upsert returns an error or throws: upsertGuildSettings logs and
\* returns false, guildDelete logs the deactivation all the same
SettingsDeactivateFailed ==
    /\ leave.pc = "upsert"
    /\ leave' = [pc |-> "done", result |-> "failed", before |-> guilds, after |-> guilds]
    /\ UNCHANGED <<guild, guilds, create, join, announceVars, detectVars, callVars,
                   permVars, logVars, handlerVars>>

\* guildMemberAdd.js up to await logMemberJoin
guildMemberAdd ==
    /\ guild.joined
    /\ join.pc \in {"idle", "done"}
    /\ join' = [NoJoin EXCEPT !.pc = "log"]
    /\ UNCHANGED <<guild, guilds, create, leave, announceVars, detectVars, callVars,
                   permVars, logVars, handlerVars>>

\* logMemberJoin returns true: the row is in member_joins
JoinLogged ==
    /\ join.pc = "log"
    /\ join' = [join EXCEPT !.pc = "settings", !.log = "stored"]
    /\ UNCHANGED <<guild, guilds, create, leave, announceVars, detectVars, callVars,
                   permVars, logVars, handlerVars>>

\* logMemberJoin returns false (insert error or exception, caught inside)
JoinLogFailed ==
    /\ join.pc = "log"
    /\ join' = [join EXCEPT !.pc = "settings", !.log = "failed"]
    /\ UNCHANGED <<guild, guilds, create, leave, announceVars, detectVars, callVars,
                   permVars, logVars, handlerVars>>

\* guildMemberAdd.js 27-48 with the value of getGuildSettings
AfterSettings(guildSettings) ==
    LET channel == welcomeChannel(guild, guildSettings.welcome_channel_id) IN
    IF SkipsWelcome(guildSettings)
    THEN [join EXCEPT !.pc = "done", !.fetched = TRUE, !.settings = guildSettings]
    ELSE [join EXCEPT !.pc = IF channel = 0 THEN "done" ELSE "welcome",
                      !.fetched = TRUE, !.settings = guildSettings,
                      !.chose = TRUE, !.channel = channel]

\* getGuildSettings returns the row of the guild, or null when there is none
SettingsRetrieved ==
    /\ join.pc = "settings"
    /\ join' = AfterSettings(guilds)
    /\ UNCHANGED <<guild, guilds, create, leave, announceVars, detectVars, callVars,
                   permVars, logVars, handlerVars>>

\* getGuildSettings returns null after an error of the query
SettingsRetrieveFailed ==
    /\ join.pc = "settings"
    /\ join' = AfterSettings(NoSettings)
    /\ UNCHANGED <<guild, guilds, create, leave, announceVars, detectVars, callVars,
                   permVars, logVars, handlerVars>>

\* await welcomeChannel.send(...) fulfils
WelcomeSent ==
    /\ join.pc = "welcome"
    /\ join' = [join EXCEPT !.pc = "dm", !.welcome = "sent"]
    /\ UNCHANGED <<guild, guilds, create, leave, announceVars, detectVars, callVars,
                   permVars, logVars, handlerVars>>

\* the send rejects: the outer catch logs, no direct message
WelcomeFailed ==
    /\ join.pc = "welcome"
    /\ join' = [join EXCEPT !.pc = "done", !.welcome = "failed"]
    /\ UNCHANGED <<guild, guilds, create, leave, announceVars, detectVars, callVars,
                   permVars, logVars, handlerVars>>

\* await user.send(dmMessage) fulfils
DmSent ==
    /\ join.pc = "dm"
    /\ join' = [join EXCEPT !.pc = "done", !.dm = "sent"]
    /\ UNCHANGED <<guild, guilds, create, leave, announceVars, detectVars, callVars,
                   permVars, logVars, handlerVars>>

\* user.send rejects (direct messages disabled): logged
DmFailed ==
    /\ join.pc = "dm"
    /\ join' = [join EXCEPT !.pc = "done", !.dm = "failed"]
    /\ UNCHANGED <<guild, guilds, create, leave, announceVars, detectVars, callVars,
                   permVars, logVars, handlerVars>>

NextJoin ==
    \/ guildMemberAdd
    \/ JoinLogged
    \/ JoinLogFailed
    \/ SettingsRetrieved
    \/ SettingsRetrieveFailed
    \/ WelcomeSent
    \/ WelcomeFailed
    \/ DmSent
    \/ DmFailed

\* the guilds of the onboarding runs: without channel, with a welcome
\* channel, with a system channel only
OnboardGuilds ==
    { [NoGuild EXCEPT !.me = TRUE],
      [NoGuild EXCEPT !.me = TRUE,
                      !.channels = << [name |-> <<"W","e","l","c","o","m","e">>, type |-> 0,
                                       permissions |-> {"ViewChannel", "SendMessages"}] >>],
      [NoGuild EXCEPT !.me = TRUE,
                      !.channels = << [name |-> <<"m","i","s","c">>, type |-> 0,
                                       permissions |-> {"ViewChannel", "SendMessages"}] >>,
                      !.systemChannelId = "c1"] }

InitOnboard ==
    /\ HandlerIdle /\ DetectIdle /\ CallsIdle /\ PermIdle /\ LogIdle /\ AnnounceIdle
    /\ guild \in OnboardGuilds
    /\ guilds = NoSettings
    /\ create = NoCreate
    /\ leave = NoLeave
    /\ join = NoJoin

NextOnboard ==
    \/ guildCreate
    \/ SettingsCreated
    \/ SettingsCreateFailed
    \/ SetupMessageSent
    \/ SetupMessageFailed
    \/ SettingsEdited
    \/ guildDelete
    \/ SettingsDeactivated
    \/ SettingsDeactivateFailed
    \/ NextJoin

SpecOnboard == InitOnboard /\ [][NextOnboard]_vars

(***************************************************************************)
(* Members join guilds of every channel cache; the settings are active and *)
(* name a preferred channel or none.                                       *)
(***************************************************************************)
WelcomeGuilds ==
    { g \in [joined : {TRUE}, me : BOOLEAN, channels : ChannelCaches,
             systemChannelId : {"null"} \cup { ChannelIds[i] : i \in 1..MaxChannels }] :
        g.systemChannelId = "null" \/ CacheGet(g, g.systemChannelId) # 0 }

InitWelcome ==
    /\ HandlerIdle /\ DetectIdle /\ CallsIdle /\ PermIdle /\ LogIdle /\ AnnounceIdle
    /\ guild \in WelcomeGuilds
    /\ \E id \in {"null", "c1", UnknownChannelId} :
          guilds = [present |-> TRUE, welcome_channel_id |-> id,
                    welcome_message |-> DefaultTemplate, is_active |-> TRUE]
    /\ create = NoCreate
    /\ leave = NoLeave
    /\ join = NoJoin

SpecWelcome == InitWelcome /\ [][NextJoin]_vars

(***************************************************************************)
(* Vocabulary of the properties.                                           *)
(***************************************************************************)
Arrived(e) == pc[e] # "idle"

ExemptCapabilities ==
    {"Administrator", "ManageMessages", "ManageChannels", "ManageGuild",
     "BanMembers", "KickMembers", "ModerateMembers"}

\* the actor of the notification holds at least one exempt capability
HoldsExemptCapability(m) ==
    /\ m.memberPresent
    /\ m.permissions # NoPermissions
    /\ m.permissions \cap ExemptCapabilities # {}

\* the notification carries an author who is no bot, a guild, a member and a channel
Complete(m) ==
    /\ m.authorPresent /\ ~m.bot /\ ~m.system
    /\ m.guildPresent /\ m.memberPresent /\ m.channelPresent

Classification(m) ==
    LET urlChanges == detectUrlChanges(m.oldContent, m.newContent) IN
    IF urlChanges.hasChangedUrls THEN urlChanges.type ELSE "no_change"

\* elapsed minutes <= 10, in ms
ElapsedAtMostTenMinutes(m) == m.now - m.createdTimestamp <= 600000

\* the decision of section 4.3 of the specification
Decision(m) ==
    IF HoldsExemptCapability(m) THEN "exempt"
    ELSE IF Classification(m) = "no_change" THEN "allowed_no_link_change"
    ELSE IF ElapsedAtMostTenMinutes(m) THEN "allowed_within_grace"
    ELSE "violation"

PersistAttempted(e) == db[e].state # "none"
DeleteAttempted(e) == del[e] # "none"
Called(e, op) == \E i \in 1..Len(trace[e]) : trace[e][i].op = op
SendAttempted(e, kind) ==
    \E i \in 1..Len(trace[e]) : trace[e][i] = Entry("send", ev[e].channelId, kind)
NoticesOf(e) == { n \in notices : n.edit = e }
TimerSet(e) == timer[e].state # "none"

\* nothing was done to the chat for e: no delete, no notice, no timer
ChatUntouched(e) ==
    /\ ~DeleteAttempted(e)
    /\ ~Called(e, "delete")
    /\ ~Called(e, "send")
    /\ NoticesOf(e) = {}
    /\ ~TimerSet(e)

(***************************************************************************)
(* C1. An actor holding an exempt capability is never moderated: whatever  *)
(* the classification of the edit and the time since the post, no row is   *)
(* submitted, no delete is attempted and no notice is sent; on a complete  *)
(* notification the handler ends in the exempt branch.                     *)
(***************************************************************************)
C1_ExemptActorNotModerated ==
    \A e \in Evts :
        (Arrived(e) /\ HoldsExemptCapability(ev[e])) =>
            /\ ~PersistAttempted(e)
            /\ ~Called(e, "persist")
            /\ ChatUntouched(e)
            /\ pc[e] = "done"
            /\ Complete(ev[e]) => outcome[e] = "exempt"

\* scenario 3: ManageMessages, a link added 20 minutes after the post
C1_Witness ==
    \E e \in Evts :
        /\ Arrived(e)
        /\ ev[e].permissions = {"ManageMessages"}
        /\ Classification(ev[e]) = "added"
        /\ ev[e].now - ev[e].createdTimestamp = 1200000
        /\ outcome[e] = "exempt"

C3_PersistIffLinkDecision ==
    \A e \in Evts :
        Arrived(e) =>
            /\ PersistAttempted(e) <=> outcome[e] \in {"allowed_within_grace", "violation"}
            /\ PersistAttempted(e) <=> Called(e, "persist")
            /\ Complete(ev[e]) => outcome[e] = Decision(ev[e])

C3_Witness ==
    \E e \in Evts :
        /\ Arrived(e)
        /\ Decision(ev[e]) = "allowed_within_grace"
        /\ PersistAttempted(e)

WarningNoticesOf(e) == { n \in NoticesOf(e) : n.kind = "warning" }
RemovalAttempted(e) == timer[e].state \in {"deleting", "removed", "failed"}
LastEntry(e) == trace[e][Len(trace[e])]

C5_WarningState ==
    \A e \in Evts :
        (outcome[e] = "violation" /\ del[e] = "deleted") =>
            /\ SendAttempted(e, "warning")
            /\ \A n \in WarningNoticesOf(e) :
                  /\ n.channel = ev[e].channelId
                  /\ n.mentions = ev[e].authorId
            /\ WarningNoticesOf(e) # {} =>
                  /\ TimerSet(e)
                  /\ timer[e].delay = 20000
            /\ TimerSet(e) => WarningNoticesOf(e) # {}
            /\ (pc[e] = "awaitSend") => WarningNoticesOf(e) = {}

C6_DeleteFailureFallback ==
    \A e \in Evts :
        (outcome[e] = "violation" /\ del[e] = "failed") =>
            /\ SendAttempted(e, "fallback")
            /\ ~SendAttempted(e, "warning")
            /\ ~TimerSet(e) /\ ~Called(e, "setTimeout")
            /\ pc[e] \in {"awaitFallback", "done"}
            /\ \A n \in NoticesOf(e) :
                  n.kind = "fallback" /\ n.channel = ev[e].channelId /\ ~n.removed
            /\ (pc[e] = "done" /\ NoticesOf(e) = {}) =>
                  LastEntry(e) = Log("error", "failed_to_send_warning")
            /\ (pc[e] = "done" /\ NoticesOf(e) # {}) =>
                  LastEntry(e) = Log("info", "fallback_sent")

\* the delete failed and the fallback send failed
C6_Witness ==
    \E e \in Evts :
        /\ outcome[e] = "violation"
        /\ del[e] = "failed"
        /\ pc[e] = "done"
        /\ NoticesOf(e) = {}
        /\ LastEntry(e) = Log("error", "failed_to_send_warning")

(***************************************************************************)
(* C7. No exception or rejection leaves the handler or its timer callback, *)
(* for malformed notifications and for every combination of failing        *)
(* delete, send, scheduled removal and persistence; a handler that threw   *)
(* has logged the error.                                                   *)
(***************************************************************************)
C7_NothingEscapes ==
    \A e \in Evts :
        /\ ~escaped[e]
        /\ (Arrived(e) /\ ~ev[e].authorPresent) =>
              (pc[e] = "done" /\ LastEntry(e) = Log("error", "handler_error"))
        /\ timer[e].state = "failed" =>
              LastEntry(e) = Log("warn", "could_not_delete_warning")

\* the scheduled removal failed after the persistence had thrown
C7_Witness ==
    \E e \in Evts :
        /\ timer[e].state = "failed"
        /\ db[e].state = "threw"
        /\ ~escaped[e]

(***************************************************************************)
(* C8. On the violation path persistence and enforcement are decoupled:    *)
(* the delete is started in the step that submits the row, while the row   *)
(* is still pending; the settling of the row, whatever its result, changes *)
(* nothing of the enforcement, whose next steps stay enabled whether the   *)
(* row is pending, stored or failed; and the row was submitted whether the *)
(* delete then succeeds or fails.                                          *)
(***************************************************************************)
Enforcement(e) == <<pc[e], del[e], trace[e], timer[e], NoticesOf(e), escaped[e]>>

C8_Step(e) ==
    /\ (del[e] = "none" /\ del'[e] # "none") =>
          /\ db[e].state = "none"
          /\ db'[e].state = "pending"
          /\ db'[e].row.action_taken = "message_deleted"
    /\ (Arrived(e) /\ db'[e] # db[e]) => UNCHANGED Enforcement(e)
    /\ outcome'[e] = "violation" =>
          /\ PersistAttempted(e)'
          /\ DeleteAttempted(e)'
          /\ pc'[e] = "awaitDelete" =>
                (ENABLED DeleteResolved(e))' /\ (ENABLED DeleteRejected(e))'
          /\ pc'[e] = "awaitSend" =>
                (ENABLED SendResolved(e))' /\ (ENABLED SendRejected(e))'
          /\ pc'[e] = "awaitFallback" =>
                (ENABLED FallbackResolved(e))' /\ (ENABLED FallbackRejected(e))'

C8_PersistenceDecoupled == [][\A e \in Evts : C8_Step(e)]_vars

\* the enforcement ran to its end while the row never settled
C8_Witness ==
    \E e \in Evts :
        /\ outcome[e] = "violation"
        /\ db[e].state = "pending"
        /\ pc[e] = "done"
        /\ timer[e].state = "removed"

(***************************************************************************)
(* C9, as claimed. For every pair of strings of which the original holds   *)
(* no link and the edited one holds a link, the edit is classified added.  *)
(* Refuted by an empty original (a message without text): detectUrlChanges *)
(* returns no change when either content is empty.                         *)
(***************************************************************************)
C9_Original ==
    (dRes # Unset /\ dOld # Null /\ dNew # Null
        /\ ~containsUrls(dOld) /\ containsUrls(dNew)) =>
        dRes = [hasChangedUrls |-> TRUE, type |-> "added"]

(***************************************************************************)
(* C9, amended. For every pair of which the original is a non-empty string *)
(* holding no link and the edited one holds a link, the edit is classified *)
(* added.                                                                  *)
(***************************************************************************)
C9_AddedWhenLinkAppears ==
    (dRes # Unset /\ ~Falsy(dOld) /\ ~containsUrls(dOld) /\ containsUrls(dNew)) =>
        dRes = [hasChangedUrls |-> TRUE, type |-> "added"]

\* "www." edited to "www.Hi": the link appears
C9_Witness ==
    /\ dOld = <<"w","w","w",".">>
    /\ dNew = <<"w","w","w",".","H","i">>
    /\ dRes = [hasChangedUrls |-> TRUE, type |-> "added"]

(***************************************************************************)
(* C10. For every pair of contents that both hold a link and differ, the   *)
(* edit is classified modified, also when the link itself is the same in   *)
(* both; a pair of equal contents is classified as no change.              *)
(***************************************************************************)
C10_ModifiedWhenLinkedTextDiffers ==
    dRes # Unset =>
        /\ (containsUrls(dOld) /\ containsUrls(dNew) /\ dOld # dNew) =>
              dRes = [hasChangedUrls |-> TRUE, type |-> "modified"]
        /\ dOld = dNew => dRes = NoChange

\* "https://x" edited to " https://x": the same link, a changed text
C10_Witness ==
    /\ dOld = <<"h","t","t","p","s",":","/","/","x">>
    /\ dNew = <<" ","h","t","t","p","s",":","/","/","x">>
    /\ dRes = [hasChangedUrls |-> TRUE, type |-> "modified"]

(***************************************************************************)
(* C11. When the edited content holds no link, whether the original held   *)
(* none or the edit removed every link, the classification is no_change;   *)
(* for an actor without exempt capability the edit is then allowed at      *)
(* every elapsed time: no row is submitted, no delete is attempted, no     *)
(* notice is sent.                                                         *)
(***************************************************************************)
C11_NoLinkAfterEditAllowed ==
    \A e \in Evts :
        (Arrived(e) /\ ~containsUrls(ev[e].newContent)) =>
            /\ Classification(ev[e]) = "no_change"
            /\ ~PersistAttempted(e)
            /\ ~Called(e, "persist")
            /\ ChatUntouched(e)
            /\ pc[e] = "done"
            /\ (Complete(ev[e]) /\ ~HoldsExemptCapability(ev[e])) =>
                  /\ outcome[e] = "allowed_no_link_change"
                  /\ trace[e] = <<Log("info", "no_url_change_allowed")>>

\* scenario 4: the link is removed 20 minutes after the post
C11_Witness ==
    \E e \in Evts :
        /\ Arrived(e)
        /\ ~HoldsExemptCapability(ev[e])
        /\ containsUrls(ev[e].oldContent)
        /\ ev[e].newContent = TextHi
        /\ ev[e].now - ev[e].createdTimestamp = 1200000
        /\ outcome[e] = "allowed_no_link_change"

\* a notification of a member without moderator permission carrying the pair
EditOf(oldContent, newContent, delay) ==
    BaseEvent(1, {"SendMessages"}, <<oldContent, newContent>>, delay)

(***************************************************************************)
(* C12. When the original or the edited content is absent or the empty     *)
(* string, detectUrlChanges returns its no-change result (a result, not an *)
(* exception), and the handler given that pair takes the no-change branch  *)
(* at every elapsed time: no row, no delete, no notice.                    *)
(***************************************************************************)
C12_AbsentOrEmptyIsNoChange ==
    (dRes # Unset /\ (Falsy(dOld) \/ Falsy(dNew))) =>
        /\ dRes = NoChange
        /\ \A delay \in EditDelays :
              messageUpdateSync(EditOf(dOld, dNew, delay)) =
                  Step("done", "allowed_no_link_change",
                       <<Log("info", "no_url_change_allowed")>>, NoRow)

\* an absent original (an uncached message) edited to a link
C12_Witness ==
    /\ dOld = Null
    /\ dNew = <<"h","t","t","p","s",":","/","/","x">>
    /\ dRes = NoChange

(***************************************************************************)
(* C13. detectUrlChanges is a function of its two arguments alone: in      *)
(* every sequence of calls, two calls with the same pair return the same   *)
(* classification whatever calls were made in between, the lastIndex left  *)
(* in a regex object by one call having no effect on the next.             *)
(***************************************************************************)
C13_SameArgumentsSameResult ==
    /\ \A i \in 1..Len(calls), j \in 1..Len(calls) :
          ( /\ calls[i].oldContent = calls[j].oldContent
            /\ calls[i].newContent = calls[j].newContent ) =>
              calls[i].result = calls[j].result
    /\ \A i \in 1..Len(calls) :
          calls[i].result = detectUrlChanges(calls[i].oldContent, calls[i].newContent)

\* the same pair classified modified twice, with a call that found a link
\* (and left a non-zero lastIndex behind) in between
C13_Witness ==
    /\ Len(calls) = 3
    /\ calls[1] = calls[3]
    /\ calls[1].result.type = "modified"
    /\ calls[2].result.type = "added"
    /\ lastIndex > 0

(***************************************************************************)
(* C14. hasModeratorPermissions returns true exactly for a member holding  *)
(* at least one of Administrator, ManageMessages, ManageChannels,          *)
(* ManageGuild, BanMembers, KickMembers, ModerateMembers; for an absent    *)
(* member or absent permission data it returns false, and it returns a     *)
(* boolean (no exception) on every argument.                               *)
(***************************************************************************)
C14_ExemptIffCapabilityHeld ==
    mRes.called =>
        /\ mRes.value \in BOOLEAN
        /\ mRes.value = HoldsExemptCapability(member)
        /\ (~member.memberPresent \/ member.permissions = NoPermissions) => ~mRes.value

\* ModerateMembers alone, the last entry of the list, exempts
C14_Witness ==
    /\ mRes.called
    /\ member.permissions = {"ModerateMembers", "SendMessages"}
    /\ mRes.value

\* the first min(n, length) characters of a string
Prefix(content, n) == SubSeq(content, 1, IF Len(content) < n THEN Len(content) ELSE n)

\* the stored field is the content cut to 1000 characters; an absent content stays absent
Truncated(content, field) ==
    IF content = Null THEN field = Null
    ELSE Len(field) <= 1000 /\ field = Prefix(content, 1000)

(***************************************************************************)
(* C16. Every row logLinkViolation gives to the data store has old_content *)
(* and new_content of at most 1000 characters, each the first min(1000,    *)
(* length) characters of the content the caller supplied.                  *)
(***************************************************************************)
C16_StoredContentTruncated ==
    lv.row # NoRow =>
        /\ Truncated(lv.oldContent, lv.row.old_content)
        /\ Truncated(lv.newContent, lv.row.new_content)

\* 1001 and 2000 characters supplied, 1000 of each stored
C16_Witness ==
    /\ lv.store = "stored"
    /\ Len(lv.oldContent) = 1001
    /\ lv.newContent # Null /\ Len(lv.newContent) = 2000
    /\ Len(lv.row.old_content) = 1000
    /\ Len(lv.row.new_content) = 1000

LoggedFailures == {"failed_to_log_link_violation", "error_logging_link_violation"}

(***************************************************************************)
(* C17. The promise logLinkViolation returns never rejects: when the data  *)
(* store returns an error, when it throws, and when the client was never   *)
(* initialised, the promise fulfils with false and the failure has been    *)
(* written to the console; it fulfils with true only when the row was      *)
(* stored.                                                                 *)
(***************************************************************************)
C17_LogFailureNotPropagated ==
    /\ lv.state # "rejected"
    /\ lv.store \in {"uninitialised", "error", "threw"} =>
          /\ lv.state = "fulfilled"
          /\ ~lv.value
          /\ lv.log \in LoggedFailures
    /\ lv.store = "uninitialised" => lv.row = NoRow
    /\ lv.store = "stored" => (lv.state = "fulfilled" /\ lv.value)
    /\ (lv.state = "fulfilled" /\ lv.value) => lv.store = "stored"

\* called before initializeSupabase: fulfilled with false, logged
C17_Witness ==
    /\ lv.store = "uninitialised"
    /\ lv.state = "fulfilled"
    /\ ~lv.value
    /\ lv.log = "error_logging_link_violation"

(***************************************************************************)
(* C15. The grace decision is taken on now minus the creation time of the  *)
(* message alone: an edit that adds or changes a link more than 10 minutes *)
(* after the post is a violation also when an earlier edit of the same     *)
(* message was made, and allowed, within the last 10 minutes.              *)
(***************************************************************************)
C15_GraceAnchoredToCreation ==
    \A e \in Evts :
        ( /\ Arrived(e)
          /\ Complete(ev[e])
          /\ ~HoldsExemptCapability(ev[e])
          /\ Classification(ev[e]) \in {"added", "modified"} ) =>
            /\ outcome[e] = "violation" <=> ev[e].now - ev[e].createdTimestamp > 600000
            /\ outcome[e] = "allowed_within_grace" <=>
                    ev[e].now - ev[e].createdTimestamp <= 600000
            /\ ( /\ ev[e].edited
                  /\ ev[e].now - ev[e].editedTimestamp <= 600000
                  /\ ev[e].now - ev[e].createdTimestamp > 600000 ) =>
                    outcome[e] = "violation"

\* a link added at 10 minutes (allowed) and changed one millisecond later
C15_Witness ==
    \E e \in Evts \ {1} :
        /\ Arrived(e)
        /\ ev[e].id = ev[e - 1].id
        /\ outcome[e - 1] = "allowed_within_grace"
        /\ ev[e].editedTimestamp = ev[e - 1].now
        /\ ev[e].now - ev[e].editedTimestamp = 1
        /\ outcome[e] = "violation"

Count(e, op) == Cardinality({ i \in 1..Len(trace[e]) : trace[e][i].op = op })

\* a notification is given to the handler once, and no step is made twice
C18_State ==
    \A e \in Evts :
        /\ Count(e, "persist") <= 1
        /\ Count(e, "delete") <= 1
        /\ Count(e, "removeNotice") <= 1
        /\ Count(e, "setTimeout") <= 1
        /\ PersistAttempted(e) <=> Count(e, "persist") = 1
        /\ DeleteAttempted(e) <=> Count(e, "delete") = 1
        /\ RemovalAttempted(e) <=> Count(e, "removeNotice") = 1

\* what has been decided or has settled stays as it is
C18_Step(e) ==
    /\ Arrived(e) => (ev'[e] = ev[e] /\ outcome'[e] = outcome[e])
    /\ Len(trace'[e]) >= Len(trace[e])
    /\ SubSeq(trace'[e], 1, Len(trace[e])) = trace[e]
    /\ db[e].state # "none" => db'[e].row = db[e].row
    /\ db[e].state \in {"stored", "error", "threw"} => db'[e] = db[e]
    /\ del[e] \in {"deleted", "failed"} => del'[e] = del[e]
    /\ timer[e].state \in {"removed", "failed"} => timer'[e] = timer[e]
    /\ pc[e] = "done" => pc'[e] = "done"

(***************************************************************************)
(* C18. Each edit notification is evaluated once and nothing is retried:   *)
(* per notification at most one row is submitted, at most one delete of    *)
(* the edited message and at most one removal of the warning notice are    *)
(* attempted, and a step that failed (or succeeded) is never made again.   *)
(***************************************************************************)
C18_OnceAndNoRetry ==
    /\ []C18_State
    /\ [][\A e \in Evts : C18_Step(e)]_vars

\* persistence, delete and fallback send all failed, and the handler is done
C18_Witness ==
    \E e \in Evts :
        /\ db[e].state = "error"
        /\ del[e] = "failed"
        /\ pc[e] = "done"
        /\ LastEntry(e) = Log("error", "failed_to_send_warning")
        /\ Count(e, "persist") = 1
        /\ Count(e, "delete") = 1

\* the handler of e is at one of its awaits
InFlight(e) == pc[e] \in {"awaitDelete", "awaitSend", "awaitFallback"}

(***************************************************************************)
(* C19, as claimed. A notification is given to the handler only when the   *)
(* handler has returned for every earlier one.                             *)
(* Refuted: the emitter calls the async handler without waiting for its    *)
(* promise, so the next notification is handled while an earlier           *)
(* evaluation is at its await of delete() or send().                       *)
(***************************************************************************)
C19_Original ==
    \A e \in Evts, f \in Evts : (e < f /\ Arrived(f)) => pc[e] = "done"

\* all that belongs to the evaluation of e
Evaluation(e) ==
    <<ev[e], pc[e], outcome[e], trace[e], db[e], del[e], timer[e], NoticesOf(e), escaped[e]>>

\* a step of one evaluation leaves every other evaluation as it was; the
\* step that hands a notification to the handler decides by that
\* notification, and the decision stands
C19_Step ==
    /\ Cardinality({ e \in Evts : Evaluation(e)' # Evaluation(e) }) <= 1
    /\ \A e \in Evts :
          /\ Arrived(e) => (ev'[e] = ev[e] /\ outcome'[e] = outcome[e])
          /\ (~Arrived(e) /\ Arrived(e)' /\ Complete(ev[e])') =>
                outcome'[e] = Decision(ev[e])'

\* a notice belongs to the message and channel of the evaluation that sent it
C19_State ==
    \A e \in Evts :
        \A n \in NoticesOf(e) : n.evt = ev[e].id /\ n.channel = ev[e].channelId

(***************************************************************************)
(* C19, amended. Evaluations do overlap at their awaits, but they share no *)
(* state: every step (the synchronous part of the handler, a settled       *)
(* persist, delete or send, a timer callback) changes the state of one     *)
(* evaluation and of no other, and the decision of each evaluation is the  *)
(* one its own notification determines, also for two edits of the same     *)
(* message in flight together.                                             *)
(***************************************************************************)
C19_EvaluationsIndependent ==
    /\ []C19_State
    /\ [][C19_Step]_vars

\* two edits of one message: the second evaluation has passed the first,
\* which is still waiting for its delete
C19_Witness ==
    /\ ev[1].id = ev[2].id
    /\ pc[1] = "awaitDelete"
    /\ pc[2] = "awaitSend"
    /\ outcome[1] = "violation" /\ outcome[2] = "violation"

(***************************************************************************)
(* C20. An edit notification whose author is a bot, or that has no guild,  *)
(* is ignored whatever its content, its age and the permissions: the       *)
(* handler returns at once, having written no log line, submitted no row,  *)
(* attempted no delete and sent no notice.                                 *)
(***************************************************************************)
C20_BotsAndDirectMessagesIgnored ==
    \A e \in Evts :
        (Arrived(e) /\ ev[e].authorPresent /\ (ev[e].bot \/ ~ev[e].guildPresent)) =>
            /\ outcome[e] = "ignored"
            /\ pc[e] = "done"
            /\ trace[e] = <<>>
            /\ ~PersistAttempted(e)
            /\ ChatUntouched(e)
            /\ ~escaped[e]

\* a bot changes a link 20 minutes after its post
C20_Witness ==
    \E e \in Evts :
        /\ Arrived(e)
        /\ ev[e].bot /\ ev[e].guildPresent
        /\ Classification(ev[e]) = "modified"
        /\ ev[e].now - ev[e].createdTimestamp = 1200000
        /\ outcome[e] = "ignored"

(***************************************************************************)
(* C21. LINK_EDITING_RULES, Rule Enforcement: when a member without        *)
(* moderator permission edits a message so that a link is added or         *)
(* modified, the delete of the edited message is attempted, a warning is   *)
(* sent and the violation is submitted to the database with action         *)
(* message_deleted.                                                        *)
(* The handler does not do so for an edit made up to 10 minutes after the  *)
(* post: it records the edit as allowed and leaves the message.            *)
(***************************************************************************)
C21_LinkEditDeletedWarnedLogged ==
    \A e \in Evts :
        ( /\ Arrived(e)
          /\ Complete(ev[e])
          /\ ~HoldsExemptCapability(ev[e])
          /\ Classification(ev[e]) \in {"added", "modified"} ) =>
            /\ DeleteAttempted(e)
            /\ PersistAttempted(e)
            /\ db[e].row.action_taken = "message_deleted"
            /\ pc[e] = "done" => Called(e, "send")

(***************************************************************************)
(* C25. The fallback path (the error line about the failed delete and the  *)
(* fallback notice) is entered only when the delete of the edited message  *)
(* failed.  The handler enters it also when the delete succeeded and the   *)
(* send of the warning notice failed, both awaits being in one try.        *)
(***************************************************************************)
C25_FallbackOnlyAfterFailedDelete ==
    \A e \in Evts :
        ( \/ SendAttempted(e, "fallback")
          \/ \E i \in 1..Len(trace[e]) :
                trace[e][i] = Log("error", "failed_to_delete_message") ) =>
            del[e] = "failed"

\* every entry a of the trace of e comes before every entry b
Before(e, a, b) ==
    \A i \in 1..Len(trace[e]), j \in 1..Len(trace[e]) :
        (trace[e][i].op = a /\ trace[e][j].op = b) => i < j

Logged(e, level, message) ==
    \E i \in 1..Len(trace[e]) : trace[e][i] = Log(level, message)

(***************************************************************************)
(* C26. Within one evaluation the steps come in a fixed order: the         *)
(* exemption check before the classification (an exempt actor's edit is    *)
(* never classified), the classification before the grace evaluation, the  *)
(* grace evaluation before the submission of the record, the submission    *)
(* before the delete; the warning notice is sent only after the delete     *)
(* succeeded, and the timer is set only after the warning was sent.        *)
(***************************************************************************)
C26_FixedOrderOfSteps ==
    \A e \in Evts :
        Arrived(e) =>
            /\ HoldsExemptCapability(ev[e]) => ~Logged(e, "info", "link_edit_detected")
            /\ Logged(e, "info", "no_url_change_allowed") => Len(trace[e]) = 1
            /\ Called(e, "persist") =>
                  /\ trace[e][1] = Log("info", "link_edit_detected")
                  /\ trace[e][2] \in {Log("info", "within_grace_allowed"), Log("warn", "violation")}
                  /\ trace[e][3].op = "persist"
            /\ Called(e, "delete") => Called(e, "persist")
            /\ Before(e, "persist", "delete")
            /\ Before(e, "delete", "send")
            /\ Before(e, "send", "setTimeout")
            /\ SendAttempted(e, "warning") =>
                  /\ del[e] = "deleted"
                  /\ Logged(e, "success", "message_deleted")
            /\ Called(e, "setTimeout") <=> TimerSet(e)
            /\ TimerSet(e) => (SendAttempted(e, "warning") /\ WarningNoticesOf(e) # {})

\* a violation carried through: record, delete, warning, timer
C26_Witness ==
    \E e \in Evts :
        /\ outcome[e] = "violation"
        /\ Len(trace[e]) >= 7
        /\ trace[e][3].op = "persist"
        /\ trace[e][4].op = "delete"
        /\ trace[e][6].op = "send"
        /\ trace[e][7].op = "setTimeout"
        /\ timer[e].state = "scheduled"

\* after a failed removal the evaluation of e does nothing more
C27_Step(e) ==
    timer[e].state = "failed" =>
        /\ timer'[e] = timer[e]
        /\ trace'[e] = trace[e]
        /\ NoticesOf(e)' = NoticesOf(e)
        /\ pc'[e] = pc[e]

C27_State ==
    \A e \in Evts :
        /\ Count(e, "removeNotice") <= 1
        /\ ~escaped[e]
        /\ timer[e].state = "failed" =>
              /\ LastEntry(e) = Log("warn", "could_not_delete_warning")
              /\ Count(e, "send") = 1
              /\ \A n \in NoticesOf(e) : n.kind = "warning" /\ ~n.removed
              /\ pc[e] = "done"

(***************************************************************************)
(* C27. The scheduled removal of a warning notice is attempted at most     *)
(* once; when it fails the failure is logged and nothing else happens: no  *)
(* second attempt, no further message, no exception out of the callback.   *)
(***************************************************************************)
C27_RemovalFailureOnlyLogged ==
    /\ []C27_State
    /\ [][\A e \in Evts : C27_Step(e)]_vars

\* the removal failed; the notice stays
C27_Witness ==
    \E e \in Evts :
        /\ timer[e].state = "failed"
        /\ LastEntry(e) = Log("warn", "could_not_delete_warning")
        /\ \E n \in WarningNoticesOf(e) : ~n.removed

(***************************************************************************)
(* C28. On the violation path the record is submitted with action_taken =  *)
(* message_deleted before the delete is attempted, and it is never changed *)
(* afterwards: the record says message_deleted whether the delete then     *)
(* succeeds or fails.                                                      *)
(***************************************************************************)
C28_RecordedBeforeDelete ==
    \A e \in Evts :
        outcome[e] = "violation" =>
            /\ PersistAttempted(e)
            /\ db[e].row.action_taken = "message_deleted"
            /\ db[e].row.message_id = ev[e].id
            /\ Count(e, "persist") = 1
            /\ Before(e, "persist", "delete")
            /\ \A i \in 1..Len(trace[e]) :
                  trace[e][i].op = "persist" => trace[e][i].a = "message_deleted"

\* the delete failed, the stored record says message_deleted
C28_Witness ==
    \E e \in Evts :
        /\ outcome[e] = "violation"
        /\ del[e] = "failed"
        /\ db[e].state = "stored"
        /\ db[e].row.action_taken = "message_deleted"

(***************************************************************************)
(* C29. A notification without a member object for its author is dropped   *)
(* before the permission check: no row is submitted, no delete attempted,  *)
(* no notice sent and nothing logged, also when the edit adds a link after *)
(* the grace period.                                                       *)
(***************************************************************************)
C29_NoMemberDropped ==
    \A e \in Evts :
        (Arrived(e) /\ ev[e].authorPresent /\ ~ev[e].memberPresent) =>
            /\ outcome[e] = "ignored"
            /\ pc[e] = "done"
            /\ trace[e] = <<>>
            /\ ~PersistAttempted(e)
            /\ ChatUntouched(e)

\* a link added after the grace period by an author without member object
C29_Witness ==
    \E e \in Evts :
        /\ Arrived(e)
        /\ ~ev[e].memberPresent /\ ev[e].guildPresent /\ ~ev[e].bot
        /\ ev[e].newContent = TextLink /\ ev[e].oldContent = TextHi
        /\ ev[e].now - ev[e].createdTimestamp > 600000
        /\ outcome[e] = "ignored"


\* C22: a run of sendStaticAnnouncement whose duplicate check was made with
\* the bot's earlier main announcement among the fetched messages sends no
\* main announcement: it neither goes on to the send nor has sent.
C22_NoSecondMainAnnouncement ==
    announce.hadMain => (announce.pc # "send" /\ announce.sent = 0)


\* C23: guildDelete only deactivates: when its upsert stored the row of a
\* guild that had one, the row has is_active = false and the
\* welcome_channel_id and welcome_message it had right before.
C23_DeactivationPreservesSettings ==
    (leave.result = "stored" /\ leave.before.present) =>
        /\ leave.after.is_active = FALSE
        /\ leave.after.welcome_channel_id = leave.before.welcome_channel_id
        /\ leave.after.welcome_message = leave.before.welcome_message

\* C24: the join-log attempt is made and settled before the settings are
\* retrieved; a welcome or a direct message is sent, or about to be, only
\* with settings that exist and are active; with missing or inactive
\* settings the evaluation ends without welcome, without direct message and
\* without choosing a channel, the join-log attempt made.
C24_JoinLoggedThenWelcomeIfActive ==
    /\ join.pc \notin {"idle", "log"} => join.log # "none"
    /\ join.fetched => join.log # "none"
    /\ (join.pc \in {"welcome", "dm"} \/ join.welcome # "none" \/ join.dm # "none") =>
          (join.fetched /\ join.settings.present /\ join.settings.is_active)
    /\ (join.fetched /\ (~join.settings.present \/ ~join.settings.is_active)) =>
          /\ join.pc = "done"
          /\ join.welcome = "none"
          /\ join.dm = "none"
          /\ ~join.chose
          /\ join.log # "none"

\* a join met a row that exists and is inactive, and was skipped although
\* the guild has a channel to welcome in; the join log had failed
C24_Witness ==
    /\ join.pc = "done"
    /\ join.fetched
    /\ join.settings.present
    /\ ~join.settings.is_active
    /\ join.log = "failed"
    /\ welcomeChannel(guild, join.settings.welcome_channel_id) # 0

\* the bot can read and write in the text channel at position i
BotCanPost(i) ==
    /\ guild.me
    /\ guild.channels[i].type = 0
    /\ {"ViewChannel", "SendMessages"} \subseteq guild.channels[i].permissions

Candidates == { i \in DOMAIN guild.channels : BotCanPost(i) }

\* the first of the heuristic names the channel's name includes, 0 for none
HeuristicIndex(i) ==
    LET hits == { k \in DOMAIN welcomeChannelNames :
                    Includes(toLowerCase(guild.channels[i].name), welcomeChannelNames[k]) }
    IN IF hits = {} THEN 0 ELSE CHOOSE k \in hits : \A l \in hits : k <= l

\* 1 #new-joiners, 2 the configured channel, 3 the system channel, 4 a
\* heuristic name, 5 any other channel
Priority(i) ==
    IF toLowerCase(guild.channels[i].name) = NewJoiners THEN 1
    ELSE IF ChannelIds[i] = join.settings.welcome_channel_id THEN 2
    ELSE IF ChannelIds[i] = guild.systemChannelId THEN 3
    ELSE IF HeuristicIndex(i) # 0 THEN 4
    ELSE 5

\* C30: once guildMemberAdd has chosen, the channel is a text channel the
\* bot can view and send in, none of the candidates comes earlier in the
\* priority order (among heuristic matches: earlier in the list of names);
\* no channel is chosen exactly when there is no candidate, and then no
\* welcome and no direct message is sent.
C30_WelcomeChannelByPriority ==
    /\ join.chose =>
          /\ (join.channel = 0) <=> (Candidates = {})
          /\ join.channel # 0 =>
                /\ join.channel \in Candidates
                /\ \A j \in Candidates :
                      /\ Priority(join.channel) <= Priority(j)
                      /\ (Priority(join.channel) = 4 /\ Priority(j) = 4) =>
                            HeuristicIndex(join.channel) <= HeuristicIndex(j)
          /\ join.channel = 0 =>
                (join.pc = "done" /\ join.welcome = "none" /\ join.dm = "none")
    /\ join.welcome # "none" => (join.chose /\ join.channel # 0)

\* the welcome went to the second channel of the cache, the system channel,
\* although the bot can post in the first, which has a heuristic name
C30_Witness ==
    /\ join.welcome = "sent"
    /\ join.channel = 2
    /\ guild.systemChannelId = ChannelIds[2]
    /\ 1 \in Candidates
    /\ HeuristicIndex(1) # 0

====
